---- MODULE Spec2Model ----
(***************************************************************************)
(* Quality Scoring Pipeline of autodoc_generator.                          *)
(*                                                                         *)
(*   - QualityLLMIntegration (generators/quality_llm_integration.py):      *)
(*     the LLM client with its filesystem cache, retry loop and JSON       *)
(*     recovery, and enhance_quality_assessment with its fallbacks.        *)
(*   - QualityAnalyzer (analyzers/quality_analyzer.py): the seven scorers, *)
(*     the overall score and level, the module recommendations and the     *)
(*     loop and rollup of analyze_quality.                                 *)
(*                                                                         *)
(* Texts (LLM replies, error messages, module sources) are sequences of    *)
(* tokens; every token stands for a fixed piece of concrete text.          *)
(***************************************************************************)
EXTENDS Integers, Sequences, FiniteSets, TLC

(* ------------------------------------------------------------------ *)
(* Bounds of the model                                                  *)
(* ------------------------------------------------------------------ *)
MaxRetries == 3
MaxBackoff == 2
MaxTTL == 2
MaxTime == 3
MaxCalls == 2
MaxTextLen == 4
MaxLines == 3
MaxMetrics == 3
MaxModules == 3

Clients == {"c1", "c2"}
Models == {"gpt-4o-mini"}
\* prompts of direct calls of _call_openai
SeqPrompts == {"p1", "p2"}
\* the prompts enhance_quality_assessment builds for one module
EnhPrompts ==
    {"comprehensive", "overall_assessment", "code_review", "pattern_analysis",
     "security_assessment"}
Prompts == SeqPrompts \cup EnhPrompts

(* ------------------------------------------------------------------ *)
(* Generic sequence helpers                                             *)
(* ------------------------------------------------------------------ *)
Min(a, b) == IF a <= b THEN a ELSE b
Max(a, b) == IF a >= b THEN a ELSE b

RECURSIVE Pow2(_)
Pow2(n) == IF n = 0 THEN 1 ELSE 2 * Pow2(n - 1)

\* s[i..j] (1-based, inclusive); empty when j < i
Slice(s, i, j) == IF j < i THEN << >> ELSE SubSeq(s, i, j)

\* needle occurs in hay at position i (Python: hay[i:i+len(needle)] == needle)
OccursAt(needle, hay, i) ==
    /\ i >= 1
    /\ i + Len(needle) - 1 <= Len(hay)
    /\ \A j \in 1..Len(needle) : hay[i + j - 1] = needle[j]

\* Python: needle in hay
Contains(needle, hay) ==
    \E i \in 1..(Len(hay) + 1) : OccursAt(needle, hay, i)

(* ------------------------------------------------------------------ *)
(* str.lower() on tokens                                                *)
(* ------------------------------------------------------------------ *)
LowerToken(t) ==
    CASE t = "Rate" -> "rate"
      [] t = "Limit" -> "limit"
      [] t = "Service" -> "service"
      [] t = "Unavailable" -> "unavailable"
      [] t = "Timeout" -> "timeout"
      [] t = "Invalid" -> "invalid"
      [] t = "API" -> "api"
      [] t = "Empty" -> "empty"
      [] t = "OpenAI" -> "openai"
      [] t = "JSON" -> "json"
      [] t = "Here" -> "here"
      [] t = "Response" -> "response"
      [] t = "The" -> "the"
      [] t = "Analysis" -> "analysis"
      [] OTHER -> t

Lower(s) == [i \in 1..Len(s) |-> LowerToken(s[i])]

(* ------------------------------------------------------------------ *)
(* _call_openai: error classification and backoff                       *)
(* ------------------------------------------------------------------ *)
\* the terms of the is_retryable test
RetryTerms ==
    { <<"429">>, <<"500">>, <<"502">>, <<"503">>, <<"504">>, <<"timeout">>,
      <<"temporarily", "unavailable">>, <<"service", "unavailable">>,
      <<"rate", "limit">> }

\* a classification that retries every error
IsRetryableAnyError(e) == TRUE

\* the classification without .lower()
IsRetryableCaseSensitive(e) == \E term \in RetryTerms : Contains(term, e)

\* message = str(e).lower(); any(term in message for term in [...])
IsRetryable(e) == \E term \in RetryTerms : Contains(term, Lower(e))

\* a delay that does not grow
BackoffDelayConstant(base, attempt) == base

\* delay = self.retry_backoff_seconds * (2 ** attempt)
BackoffDelay(base, attempt) == base * Pow2(attempt)

\* raise ValueError("Empty response content from OpenAI")
EmptyContentError == <<"Empty", "response", "content", "from", "OpenAI">>
\* raise RuntimeError("OpenAI call failed without exception detail")
NoDetailError == <<"OpenAI", "call", "failed", "without", "exception", "detail">>
\* raise RuntimeError("OpenAI client not initialized")
NotInitializedError == <<"OpenAI", "client", "not", "initialized">>

\* errors the external service raises (str(e))
ServiceErrors ==
    { <<"Rate", "limit", "exceeded">>,
      <<"Service", "Unavailable">>,
      <<"Invalid", "API", "key">>,
      <<"limit", "of", "Rate">> }


\* replies of the external service: response.choices[0].message.content
\* (None and "" are both the empty text after `or ""`)
ServiceContents ==
    { << >>,
      <<"\n">>,
      <<"{", "}">>,
      <<"\n", "{", "k:", "0", "}", "\n">> }

IsSpace(t) == t \in {"\n", " "}

\* str.strip()
RECURSIVE LStrip(_)
LStrip(s) == IF s # << >> /\ IsSpace(Head(s)) THEN LStrip(Tail(s)) ELSE s

RECURSIVE RStrip(_)
RStrip(s) ==
    IF s # << >> /\ IsSpace(s[Len(s)]) THEN RStrip(SubSeq(s, 1, Len(s) - 1)) ELSE s

Strip(s) == RStrip(LStrip(s))

(* ------------------------------------------------------------------ *)
(* Reply texts and json.loads                                           *)
(* ------------------------------------------------------------------ *)
\* The text each token of a reply stands for:
\*   "{" "}" "[" "]"   the structural characters of JSON
\*   "k:"              "k":    (a member name with its colon)
\*   "0"               0
\*   "req"             "overall_assessment": "a", "strengths": [],
\*                     "weaknesses": [], "improvement_priority": []
\*   "part"            "overall_assessment": "a"
\*   "<fence>"         a code fence, three backquotes
\*   "\n" " "          a newline, a blank
\*   ":" "'s"          themselves
\*   every other token a word made of letters only
LetterWords ==
    {"json", "JSON", "Here", "here", "the", "The", "is", "response", "Response",
     "analysis", "Analysis", "results"}

\* the index after the JSON value that starts at t[i], 0 when there is none
\* (t holds no whitespace; an object has at most one member token, an
\* array at most one element, as no token of the texts is a comma; the
\* token "names" is the four strings "overall_assessment", "strengths",
\* "weaknesses", "improvement_priority" separated by commas)
RECURSIVE ValueEnd(_, _)
ValueEnd(t, i) ==
    IF i > Len(t) THEN 0
    ELSE IF t[i] = "0" THEN i + 1
    ELSE IF t[i] = "[" THEN
        IF i + 1 > Len(t) THEN 0
        ELSE IF t[i + 1] = "]" THEN i + 2
        ELSE LET e == IF t[i + 1] = "names" THEN i + 2 ELSE ValueEnd(t, i + 1)
             IN  IF e # 0 /\ e <= Len(t) /\ t[e] = "]" THEN e + 1 ELSE 0
    ELSE IF t[i] = "{" THEN
        IF i + 1 > Len(t) THEN 0
        ELSE IF t[i + 1] = "}" THEN i + 2
        ELSE LET e == IF t[i + 1] \in {"req", "part"} THEN i + 2
                      ELSE IF t[i + 1] = "k:" THEN ValueEnd(t, i + 2)
                      ELSE 0
             IN  IF e # 0 /\ e <= Len(t) /\ t[e] = "}" THEN e + 1 ELSE 0
    ELSE 0

\* whitespace between the tokens of a JSON text is insignificant
NoSpace(text) == SelectSeq(text, LAMBDA x : ~IsSpace(x))

\* json.loads(text): the value (its tokens without whitespace) or
\* json.JSONDecodeError
JsonLoads(text) ==
    LET t == NoSpace(text)
    IN  IF t # << >> /\ ValueEnd(t, 1) = Len(t) + 1
        THEN [ok |-> TRUE, value |-> t]
        ELSE [ok |-> FALSE, value |-> << >>]

\* the value {}
EmptyMapping == <<"{", "}">>

\* isinstance(value, dict)
IsMapping(value) == value # << >> /\ value[1] = "{"

\* the names of the members of a mapping
TopKeys(value) ==
    IF ~IsMapping(value) \/ Len(value) < 3 THEN {}
    ELSE IF value[2] = "req"
         THEN {"overall_assessment", "strengths", "weaknesses",
               "improvement_priority"}
    ELSE IF value[2] = "part" THEN {"overall_assessment"}
    ELSE {"k"}

(* ------------------------------------------------------------------ *)
(* _parse_json_response                                                 *)
(* ------------------------------------------------------------------ *)
Failed == [ok |-> FALSE, raised |-> FALSE, value |-> << >>]

\* a json.loads whose JSONDecodeError is not caught
TryUncaught(candidate) ==
    LET r == JsonLoads(candidate)
    IN  [ok |-> r.ok, raised |-> ~r.ok, value |-> r.value]

\* try: return json.loads(candidate)  except json.JSONDecodeError: ...
Try(candidate) ==
    LET r == JsonLoads(candidate)
    IN  [ok |-> r.ok, raised |-> FALSE, value |-> r.value]

\* the attempt ends the function: it returned or it raised
Stops(r) == r.ok \/ r.raised

\* str.find / str.rfind of a one-character token, 0 when absent
Find(tok, text) ==
    IF \E i \in 1..Len(text) : text[i] = tok
    THEN CHOOSE i \in 1..Len(text) :
             text[i] = tok /\ \A j \in 1..(i - 1) : text[j] # tok
    ELSE 0

RFind(tok, text) ==
    IF \E i \in 1..Len(text) : text[i] = tok
    THEN CHOOSE i \in 1..Len(text) :
             text[i] = tok /\ \A j \in (i + 1)..Len(text) : text[j] # tok
    ELSE 0

\* str.find of a text, 0 when absent
FindSeq(needle, hay) ==
    IF Contains(needle, hay)
    THEN CHOOSE i \in 1..(Len(hay) + 1) :
             OccursAt(needle, hay, i) /\ \A j \in 1..(i - 1) : ~OccursAt(needle, hay, j)
    ELSE 0

\* re.MULTILINE: ^ matches at the start and after every newline,
\* $ at the end and before every newline
AtLineStart(text, i) == i = 1 \/ text[i - 1] = "\n"
AtLineEnd(text, i) == i > Len(text) \/ text[i] = "\n"

RECURSIVE SkipLetters(_, _)
SkipLetters(text, i) ==
    IF i <= Len(text) /\ text[i] \in LetterWords THEN SkipLetters(text, i + 1) ELSE i

\* the index after a match of  ^```[a-zA-Z]*\n?  at i, 0 when there is none
OpenFenceEnd(text, i) ==
    IF text[i] = "<fence>" /\ AtLineStart(text, i)
    THEN LET j == SkipLetters(text, i + 1)
         IN  IF j <= Len(text) /\ text[j] = "\n" THEN j + 1 ELSE j
    ELSE 0

\* the index after a match of  \n?```$  at i, 0 when there is none
CloseFenceEnd(text, i) ==
    IF text[i] = "\n" /\ i + 1 <= Len(text) /\ text[i + 1] = "<fence>"
       /\ AtLineEnd(text, i + 2)
    THEN i + 2
    ELSE IF text[i] = "<fence>" /\ AtLineEnd(text, i + 1) THEN i + 1
    ELSE 0

\* re.sub(r"^```[a-zA-Z]*\n?|\n?```$", "", text, flags=re.MULTILINE), from i on
RECURSIVE FenceSub(_, _)
FenceSub(text, i) ==
    IF i > Len(text) THEN << >>
    ELSE LET e == IF OpenFenceEnd(text, i) # 0 THEN OpenFenceEnd(text, i)
                  ELSE CloseFenceEnd(text, i)
         IN  IF e # 0 THEN FenceSub(text, e)
             ELSE <<text[i]>> \o FenceSub(text, i + 1)

\* Strategy 1: json.loads(text)
DirectParse(text) == Try(text)

\* Strategy 2: remove the code fences, parse when something was removed
FenceParse(text) ==
    LET cleaned == FenceSub(text, 1)
    IN  IF cleaned # text THEN Try(Strip(cleaned)) ELSE Failed

\* a candidate that misses its closing brace: text[start:end]
BraceParseShort(text) ==
    LET start == Find("{", text)
        end == RFind("}", text)
    IN  IF start # 0 /\ end # 0 /\ end > start
        THEN Try(Slice(text, start, end - 1))
        ELSE Failed

\* Strategy 3: candidate = text[start:end + 1], first "{" to last "}"
BraceParse(text) ==
    LET start == Find("{", text)
        end == RFind("}", text)
    IN  IF start # 0 /\ end # 0 /\ end > start
        THEN Try(Slice(text, start, end))
        ELSE Failed

\* json_prefixes, in the order of the list
JsonPrefixes ==
    << <<"Here", "'s", " ", "the", " ", "JSON", " ", "response", ":">>,
       <<"Here", " ", "is", " ", "the", " ", "JSON", ":">>,
       <<"JSON", " ", "response", ":">>,
       <<"Response", ":">>,
       <<"<fence>", "json">>,
       <<"The", " ", "analysis", " ", "results", ":">>,
       <<"Analysis", ":">> >>

\* the body of the loop for one prefix
PrefixAttempt(text, prefix) ==
    IF ~Contains(prefix, Lower(text)) THEN Failed
    ELSE LET prefix_pos == FindSeq(Lower(prefix), Lower(text))
             after_prefix == Strip(Slice(text, prefix_pos + Len(prefix), Len(text)))
             direct == Try(after_prefix)
         IN  IF Stops(direct) THEN direct ELSE BraceParse(after_prefix)

\* Strategy 4: for prefix in json_prefixes, from the n-th prefix on
RECURSIVE PrefixParseFrom(_, _)
PrefixParseFrom(text, n) ==
    IF n > Len(JsonPrefixes) THEN Failed
    ELSE LET r == PrefixAttempt(text, JsonPrefixes[n])
         IN  IF Stops(r) THEN r ELSE PrefixParseFrom(text, n + 1)

PrefixParse(text) == PrefixParseFrom(text, 1)

RECURSIVE SkipNonBraces(_, _)
SkipNonBraces(text, i) ==
    IF i <= Len(text) /\ text[i] \notin {"{", "}"}
    THEN SkipNonBraces(text, i + 1)
    ELSE i

\* (?:\{[^{}]*\}[^{}]*)*\}  from j on: the index of the closing brace, 0
\* when the pattern does not match
RECURSIVE BalancedTail(_, _)
BalancedTail(text, j) ==
    IF j > Len(text) THEN 0
    ELSE IF text[j] = "}" THEN j
    ELSE LET k == SkipNonBraces(text, j + 1)
         IN  IF k <= Len(text) /\ text[k] = "}"
             THEN BalancedTail(text, SkipNonBraces(text, k + 1))
             ELSE 0

\* \{[^{}]*(?:\{[^{}]*\}[^{}]*)*\}  matched at i
BalancedEnd(text, i) ==
    IF text[i] = "{" THEN BalancedTail(text, SkipNonBraces(text, i + 1)) ELSE 0

\* re.findall(pattern, text), from i on
RECURSIVE FindAllBalanced(_, _)
FindAllBalanced(text, i) ==
    IF i > Len(text) THEN << >>
    ELSE LET e == BalancedEnd(text, i)
         IN  IF e # 0 THEN <<Slice(text, i, e)>> \o FindAllBalanced(text, e + 1)
             ELSE FindAllBalanced(text, i + 1)

\* for obj in json_objects: try json.loads(obj)
RECURSIVE FirstLoadable(_)
FirstLoadable(objs) ==
    IF objs = << >> THEN Failed
    ELSE LET r == Try(Head(objs))
         IN  IF Stops(r) THEN r ELSE FirstLoadable(Tail(objs))

\* Strategy 5: the brace-balanced substrings
BalancedParse(text) == FirstLoadable(FindAllBalanced(text, 1))

\* what the function does with an attempt that ended it
Outcome(r, n) ==
    [value |-> IF r.raised THEN << >> ELSE r.value, by |-> n, raised |-> r.raised]

\* the strategies with the balanced substrings tried before the brace substring
ParseJsonResponseBalancedFirst(text0) ==
    IF text0 = << >> \/ Strip(text0) = << >>
    THEN [value |-> EmptyMapping, by |-> 0, raised |-> FALSE]
    ELSE LET text == Strip(text0)
         IN  IF Stops(DirectParse(text)) THEN Outcome(DirectParse(text), 1)
             ELSE IF Stops(FenceParse(text)) THEN Outcome(FenceParse(text), 2)
             ELSE IF Stops(BalancedParse(text)) THEN Outcome(BalancedParse(text), 5)
             ELSE IF Stops(BraceParse(text)) THEN Outcome(BraceParse(text), 3)
             ELSE IF Stops(PrefixParse(text)) THEN Outcome(PrefixParse(text), 4)
             ELSE [value |-> EmptyMapping, by |-> 6, raised |-> FALSE]

\* _parse_json_response(text): the value returned, the strategy whose return
\* statement returned it (0: the guard for empty text, 6: the final return {})
\* and whether an exception left the function instead
ParseJsonResponse(text0) ==
    IF text0 = << >> \/ Strip(text0) = << >>
    THEN [value |-> EmptyMapping, by |-> 0, raised |-> FALSE]
    ELSE LET text == Strip(text0)
         IN  IF Stops(DirectParse(text)) THEN Outcome(DirectParse(text), 1)
             ELSE IF Stops(FenceParse(text)) THEN Outcome(FenceParse(text), 2)
             ELSE IF Stops(BraceParse(text)) THEN Outcome(BraceParse(text), 3)
             ELSE IF Stops(PrefixParse(text)) THEN Outcome(PrefixParse(text), 4)
             ELSE IF Stops(BalancedParse(text)) THEN Outcome(BalancedParse(text), 5)
             ELSE [value |-> EmptyMapping, by |-> 6, raised |-> FALSE]

\* no call of _parse_json_response has returned yet
NotParsed == [value |-> << >>, by |-> -1, raised |-> FALSE]

(* ------------------------------------------------------------------ *)
(* The texts given to _parse_json_response                              *)
(* ------------------------------------------------------------------ *)
ParseAlphabet == {"{", "}", "[", "]", "k:", "0", "<fence>", "json", "\n"}

\* every text of at most MaxTextLen tokens of ParseAlphabet
ShortTexts == UNION { [1..n -> ParseAlphabet] : n \in 0..MaxTextLen }

HeresTheJson == <<"Here", "'s", " ", "the", " ", "JSON", " ", "response", ":">>

\* JSON objects, some with whitespace between their tokens
JsonObjects ==
    { <<"{", "}">>,
      <<"{", "k:", "0", "}">>,
      <<"{", "req", "}">>,
      <<"{", "part", "}">>,
      <<"{", "k:", "[", "0", "]", "}">>,
      <<"{", "k:", "{", "}", "}">>,
      <<"{", "k:", "{", "k:", "{", "}", "}", "}">>,
      <<"{", "\n", "k:", " ", "{", "k:", "{", "k:", "0", "}", "}", "\n", "}">> }

\* other bodies: JSON of another kind, malformed objects, prose
OtherBodies ==
    { <<"[", "0", "]">>, <<"0">>, <<"{", "k:", "}">>, <<"{", "k:", "0">>,
      <<"{", "the", "}">>, <<"the">>,
      <<"{", "k:", "{", "the", "}", "}", " ", "{", "}">> }

TextPrefixes ==
    { << >>,
      <<"<fence>", "json", "\n">>, <<"<fence>", "\n">>, <<"<fence>">>,
      <<"<fence>", "json">>, <<"<fence>", "JSON", "\n">>,
      HeresTheJson \o <<" ">>, HeresTheJson \o <<"\n">>,
      <<"Response", ":", " ">>,
      <<"the", " ", "<fence>", "json", "\n">>,
      <<"{", "the", " ", "<fence>", "json", " ">> }

TextSuffixes ==
    { << >>, <<"\n", "<fence>">>, <<"<fence>">>, <<"\n", "<fence>", "\n">>,
      <<" ", "the">>, <<" ", "}">> }

ComposedTexts ==
    { pre \o body \o post :
        pre \in TextPrefixes, body \in JsonObjects \cup OtherBodies,
        post \in TextSuffixes }

Texts == ShortTexts \cup ComposedTexts

(* ------------------------------------------------------------------ *)
(* quality_metrics, mappings and _generate_fallback_assessment          *)
(* ------------------------------------------------------------------ *)
\* one entry of quality_metrics; score and weight in hundredths
Metric(n, s, w) == [name |-> n, score |-> s, weight |-> w]

\* the metrics of QualityAnalyzer in the order it inserts them, with its
\* default weights, for the given scores
MetricsOf(scores) ==
    << Metric("complexity", scores[1], 20),
       Metric("documentation", scores[2], 15),
       Metric("maintainability", scores[3], 20),
       Metric("testability", scores[4], 15),
       Metric("design_patterns", scores[5], 10),
       Metric("code_style", scores[6], 10),
       Metric("security", scores[7], 10) >>

\* the quality_metrics handed to enhance_quality_assessment: high scores,
\* mixed scores, low scores, a mapping without 'security', an empty mapping
MetricProfiles ==
    { MetricsOf(<<90, 90, 90, 90, 90, 90, 90>>),
      MetricsOf(<<90, 40, 70, 70, 70, 70, 110>>),
      MetricsOf(<<30, 30, 30, 30, 30, 30, 30>>),
      SubSeq(MetricsOf(<<90, 40, 70, 70, 30, 70, 70>>), 1, 6),
      << >> }

RECURSIVE WeightedSum(_)
WeightedSum(metrics) ==
    IF metrics = << >> THEN 0
    ELSE Head(metrics).score * Head(metrics).weight + WeightedSum(Tail(metrics))

\* s[:n]
Take(s, n) == SubSeq(s, 1, Min(n, Len(s)))

\* metric_name.replace('_', ' ').title()
TitleOf(name) ==
    CASE name = "complexity" -> "Complexity"
      [] name = "documentation" -> "Documentation"
      [] name = "maintainability" -> "Maintainability"
      [] name = "testability" -> "Testability"
      [] name = "design_patterns" -> "Design Patterns"
      [] name = "code_style" -> "Code Style"
      [] name = "security" -> "Security"
      [] OTHER -> name

\* the metrics with score < 0.5, in the order of the mapping
LowMetrics(metrics) == SelectSeq(metrics, LAMBDA m : m.score < 50)

\* _generate_fallback_assessment(quality_metrics); overall_score in 1/10000
GenerateFallbackAssessment(metrics) ==
    LET overall_score == WeightedSum(metrics)
        low == LowMetrics(metrics)
        weaknesses == [i \in 1..Len(low) |-> <<"Low", low[i].name, "score">>]
        improvement_priority == [i \in 1..Len(low) |-> TitleOf(low[i].name)]
    IN  [ overall_assessment |->
              IF overall_score >= 8000
              THEN "This module demonstrates high code quality with strong adherence to best practices."
              ELSE IF overall_score >= 6000
              THEN "This module shows good code quality with some areas for improvement."
              ELSE "This module has significant quality issues that need attention.",
          strengths |->
              Take(IF overall_score >= 8000
                   THEN <<"High overall quality score", "Good metric performance",
                          "Well-structured code">>
                   ELSE IF overall_score >= 6000
                   THEN <<"Decent overall quality", "Some strong metrics",
                          "Generally well-organized">>
                   ELSE <<"Potential for improvement", "Basic functionality present">>, 3),
          weaknesses |->
              Take(IF weaknesses = << >>
                   THEN << <<"Minor optimization opportunities">> >>
                   ELSE weaknesses, 3),
          improvement_priority |->
              Take(IF improvement_priority = << >>
                   THEN <<"Code documentation", "Test coverage", "Complexity reduction">>
                   ELSE improvement_priority, 3),
          confidence |-> 70,
          source |-> "fallback_analysis" ]

\* required_sections / required_keys
RequiredKeys ==
    {"overall_assessment", "strengths", "weaknesses", "improvement_priority"}

\* the strings that are elements of an array
Elements(value) ==
    IF value = <<"[", "names", "]">> THEN RequiredKeys ELSE {}

\* a validation that is content with one of the required keys
HasAnyRequiredKey(value) ==
    IF IsMapping(value) THEN RequiredKeys \cap TopKeys(value) # {}
    ELSE RequiredKeys \cap Elements(value) # {}

\* all(key in result for key in required_sections): true of a mapping with
\* the four keys and of an array with the four strings as elements; false
\* of any other mapping or array; for a number `key in result` raises
\* TypeError, which the except clause of the caller handles on the path of
\* the missing keys
HasRequiredKeys(value) ==
    IF IsMapping(value) THEN RequiredKeys \subseteq TopKeys(value)
    ELSE RequiredKeys \subseteq Elements(value)

\* {}
EmptyDict == << >>

\* the dict a parsed JSON object is
AsMapping(value) ==
    IF ~IsMapping(value) \/ Len(value) < 3 THEN EmptyDict
    ELSE IF value[2] = "req"
         THEN [ overall_assessment |-> "a", strengths |-> << >>,
                weaknesses |-> << >>, improvement_priority |-> << >> ]
    ELSE IF value[2] = "part" THEN [ overall_assessment |-> "a" ]
    ELSE [ x \in {"k"} |-> SubSeq(value, 3, Len(value) - 1) ]

\* d.update(e)
Update(d, e) ==
    [ x \in (DOMAIN d) \cup (DOMAIN e) |-> IF x \in DOMAIN e THEN e[x] ELSE d[x] ]

\* d[key] = v
SetItem(d, key, v) == Update(d, [ x \in {key} |-> v ])

\* {"review_summary": "Code review unavailable due to processing error"}
ReviewUnavailable == <<"{", "review_summary:", "unavailable", "}">>
\* _generate_fallback_pattern_analysis(...)
FallbackPatternAnalysis == <<"{", "pattern_assessment:", "unavailable", "}">>
\* {"security_score": 0.5, "risk_level": "unknown"}
SecurityUnknown == <<"{", "security_score:", "0.5", "risk_level:", "unknown", "}">>

(* ------------------------------------------------------------------ *)
(* State                                                                *)
(* ------------------------------------------------------------------ *)
VARIABLES
    active,                 \* the clients (processes) that run in this behaviour
    openai_enabled,         \* self.openai_enabled (self.client exists iff it is set)
    max_retries,            \* self.max_retries
    retry_backoff_seconds,  \* self.retry_backoff_seconds
    cache_enabled,          \* self.cache_enabled
    cache_ttl_hours,        \* self.cache_ttl_hours
    model,                  \* self.model, per client
    now,                    \* datetime.now(), in hours
    cache,                  \* the files of cache_dir: cache key -> cache_data
    pc,                     \* each client's position in _call_openai
    prompt,                 \* the prompt of the client's current call
    attempt,                \* the loop variable of the retry loop
    last_exception,         \* last_exception
    content,                \* the stripped content of the successful reply
    cache_data,             \* cache_data of the client's _cache_response
    result,                 \* how the last call ended: returned text or raised error
    sleeps,                 \* the time.sleep delays of the current call, in order
    errors,                 \* the errors of the current call's attempts, in order
    nExt,                   \* external requests made by the current call
    tCheck,                 \* datetime.now() of the current call's cache lookup
    lastOk,                 \* per key: the last reply stored by a successful call
    prior,                  \* lastOk of the key when the current call began
    expiredRead,            \* the current call's lookup read an expired entry
    freshDeleted,           \* some unlink removed an entry that was not expired
    ncalls,                 \* calls begun so far
    parseText,              \* the text given to _parse_json_response
    parseOut,               \* what _parse_json_response did with it
    quality_metrics,        \* enhance_quality_assessment's quality_metrics
    contentLen,             \* len(content) of the module being assessed
    enhPc,                  \* position in enhance_quality_assessment
    enhanced,               \* enhanced_assessment: being built, then returned
    compOutcome,            \* how the consolidated call of this invocation ended
    overallOutcome,         \* how its overall-assessment call ended
    enhCalled,              \* prompts given to _call_openai by this invocation
    enhSent,                \* prompts of this invocation's external requests
    enhCacheOps,            \* cache file operations of this invocation
    module,                 \* the module given to _analyze_module_quality
    moduleMetrics,          \* metrics: the QualityMetric of each scorer run so far
    overall_score,          \* overall_score of the module's assessment
    quality_level,          \* quality_level of the module's assessment
    assessPc,               \* position in _analyze_module_quality after the level
    llm_assessment,         \* llm_assessment of the module's assessment
    recommendations,        \* recommendations of the module's assessment
    modules,                \* code_analysis['modules'] given to analyze_quality
    nextModule,             \* index of the module the loop of analyze_quality is at
    assessments,            \* assessments
    quality_results,        \* quality_results
    aqPc                    \* position in analyze_quality

clientVars ==
    << pc, prompt, attempt, last_exception, content, cache_data, result, sleeps, errors,
       nExt, tCheck, prior, expiredRead >>
configVars ==
    << active, openai_enabled, max_retries, retry_backoff_seconds, cache_enabled,
       cache_ttl_hours, model >>
llmVars == << configVars, now, cache, clientVars, lastOk, freshDeleted, ncalls >>
parseVars == << parseText, parseOut >>
enhVars ==
    << quality_metrics, contentLen, enhPc, enhanced, compOutcome, overallOutcome,
       enhCalled, enhSent, enhCacheOps >>
recVars == << assessPc, llm_assessment, recommendations >>
assessVars == << overall_score, quality_level, recVars >>
rollupVars == << modules, nextModule, assessments, quality_results, aqPc >>
scoreVars == << module, moduleMetrics, assessVars, rollupVars >>
vars == << llmVars, parseVars, enhVars, scoreVars >>

(* ------------------------------------------------------------------ *)
(* The cache: _get_cache_key, _get_cached_response, _cache_response     *)
(* ------------------------------------------------------------------ *)
\* content = f"{model}:{prompt}"; hashlib.md5(...).hexdigest()
\* (the digest is taken to be collision free on the texts of the model)
GetCacheKey(p, m) == <<m, ":", p>>

Keys == { GetCacheKey(p, m) : p \in Prompts, m \in Models }

\* cache_file.exists()
Exists(files, key) == key \in DOMAIN files

\* an entry that expires one hour early
ExpiredEarly(entry, ttl, t) == t >= entry.timestamp + ttl

\* datetime.now() > cached_time + timedelta(hours=self.cache_ttl_hours)
Expired(entry, ttl, t) == t > entry.timestamp + ttl

\* an entry that does not name its model
CacheDataUnlabelled(text, t, m) == [response |-> text, timestamp |-> t, model |-> "unknown"]

\* cache_data = {'response': ..., 'timestamp': ..., 'model': ...}
CacheData(text, t, m) == [response |-> text, timestamp |-> t, model |-> m]

\* a write that is lost
WriteFileLost(files, key, entry) == files

\* a file that holds no JSON document (json.load raises on it): its model
\* is empty and its timestamp field holds its length
NoDocument(length) == [response |-> << >>, timestamp |-> length, model |-> ""]

\* the file open(cache_file, 'w') leaves: created or truncated
EmptyFile == NoDocument(0)

\* json.load(f) returns the entry
Loadable(file) == file.model # ""

\* length of a file
FileSize(file) == IF Loadable(file) THEN Len(file.response) ELSE file.timestamp

\* a dump that writes nothing into the opened file
DumpNothing(file, entry) == file

\* the file after a handle opened before the file got its present content
\* writes entry from offset 0: the tail of a longer content stays behind it
Overlay(file, entry) ==
    IF FileSize(file) > FileSize(entry) THEN NoDocument(FileSize(file)) ELSE entry

\* json.dump(cache_data, f) into cache_file
WriteFile(files, key, entry) ==
    [k \in (DOMAIN files) \cup {key} |-> IF k = key THEN entry ELSE files[k]]

\* cache_file.unlink()
Unlink(files, key) == [k \in (DOMAIN files) \ {key} |-> files[k]]

\* last_exception: Optional[Exception] = None
NoException == << >>
\* no reply stored yet
NoEntry == [response |-> << >>, timestamp |-> 0, model |-> ""]

NoResult == [kind |-> "none", value |-> << >>]
Returned(text) == [kind |-> "return", value |-> text]
Raised(e) == [kind |-> "raise", value |-> e]

KeyOf(c) == GetCacheKey(prompt[c], model[c])

(* ------------------------------------------------------------------ *)
(* Initial states                                                       *)
(* ------------------------------------------------------------------ *)
InitClient ==
    /\ pc = [c \in Clients |-> "idle"]
    /\ prompt = [c \in Clients |-> "p1"]
    /\ attempt = [c \in Clients |-> 0]
    /\ last_exception = [c \in Clients |-> NoException]
    /\ content = [c \in Clients |-> << >>]
    /\ cache_data = [c \in Clients |-> NoEntry]
    /\ result = [c \in Clients |-> NoResult]
    /\ sleeps = [c \in Clients |-> << >>]
    /\ errors = [c \in Clients |-> << >>]
    /\ nExt = [c \in Clients |-> 0]
    /\ tCheck = [c \in Clients |-> 0]
    /\ prior = [c \in Clients |-> NoEntry]
    /\ expiredRead = [c \in Clients |-> FALSE]

InitConfig ==
    /\ max_retries \in 0..MaxRetries
    /\ retry_backoff_seconds \in 1..MaxBackoff
    /\ cache_enabled \in BOOLEAN
    /\ cache_ttl_hours \in 1..MaxTTL
    /\ model \in [Clients -> Models]
    /\ now = 0
    /\ cache = << >>
    /\ lastOk = [k \in Keys |-> NoEntry]
    /\ freshDeleted = FALSE
    /\ ncalls = 0

\* one client process using the cache directory
\* no text is being parsed
InitNoParse ==
    /\ parseText = << >>
    /\ parseOut = NotParsed

\* no client runs
InitNoClient ==
    /\ active = {}
    /\ openai_enabled = FALSE
    /\ max_retries = 3
    /\ retry_backoff_seconds = 1
    /\ cache_enabled = FALSE
    /\ cache_ttl_hours = 1
    /\ model = [c \in Clients |-> "gpt-4o-mini"]
    /\ now = 0
    /\ cache = << >>
    /\ lastOk = [k \in Keys |-> NoEntry]
    /\ freshDeleted = FALSE
    /\ ncalls = 0
    /\ InitClient

\* enhance_quality_assessment is not in use
InitNoEnh ==
    /\ quality_metrics = << >>
    /\ contentLen = 0
    /\ enhPc = "idle"
    /\ enhanced = EmptyDict
    /\ compOutcome = "none"
    /\ overallOutcome = "none"
    /\ enhCalled = << >>
    /\ enhSent = << >>
    /\ enhCacheOps = 0

\* quality_results as analyze_quality creates it
NewQualityResults ==
    [ overview |-> EmptyDict, module_assessments |-> EmptyDict,
      quality_distribution |-> EmptyDict, recommendations |-> << >>,
      trends |-> EmptyDict, total_modules_analyzed |-> 0 ]

\* analyze_quality is not in use
InitNoRollup ==
    /\ modules = << >>
    /\ nextModule = 1
    /\ assessments = << >>
    /\ quality_results = NewQualityResults
    /\ aqPc = "idle"

\* no recommendations are being generated
InitNoRecs ==
    /\ assessPc = "metrics"
    /\ llm_assessment = [improvement_priority |-> << >>]
    /\ recommendations = << >>

\* no module is being scored
InitNoScore ==
    /\ module = [content |-> <<"blank">>, functions |-> << >>]
    /\ moduleMetrics = << >>
    /\ overall_score = <<0, 0>>
    /\ quality_level = "none"
    /\ InitNoRecs
    /\ InitNoRollup

InitSeq ==
    /\ active = {"c1"}
    /\ openai_enabled \in BOOLEAN
    /\ InitConfig
    /\ InitClient
    /\ InitNoParse
    /\ InitNoEnh
    /\ InitNoScore

\* a text arrives at _parse_json_response
InitParse ==
    /\ parseText \in Texts
    /\ parseOut = NotParsed
    /\ InitNoClient
    /\ InitNoEnh
    /\ InitNoScore

(* ------------------------------------------------------------------ *)
(* _call_openai                                                         *)
(* ------------------------------------------------------------------ *)
\* the call ends: return or raise
Complete(c, r) ==
    /\ pc' = [pc EXCEPT ![c] = "idle"]
    /\ result' = [result EXCEPT ![c] = r]

\* the cache lookup missed: enter the retry loop
Miss(c) ==
    /\ pc' = [pc EXCEPT ![c] = "attempt"]
    /\ UNCHANGED result

\* entry of _call_openai(prompt)
CallOpenAI(c, p) ==
    /\ c \in active
    /\ pc[c] = "idle"
    /\ ncalls' = ncalls + 1
    /\ prompt' = [prompt EXCEPT ![c] = p]
    /\ attempt' = [attempt EXCEPT ![c] = 0]
    /\ last_exception' = [last_exception EXCEPT ![c] = NoException]
    /\ content' = [content EXCEPT ![c] = << >>]
    /\ sleeps' = [sleeps EXCEPT ![c] = << >>]
    /\ errors' = [errors EXCEPT ![c] = << >>]
    /\ nExt' = [nExt EXCEPT ![c] = 0]
    /\ tCheck' = [tCheck EXCEPT ![c] = now]
    /\ prior' = [prior EXCEPT ![c] = lastOk[GetCacheKey(p, model[c])]]
    /\ expiredRead' = [expiredRead EXCEPT ![c] = FALSE]
    /\ IF ~openai_enabled
         THEN \* if not getattr(self, 'client', None): raise RuntimeError
              Complete(c, Raised(NotInitializedError))
         ELSE /\ pc' = [pc EXCEPT ![c] = "get_cached"]
              /\ result' = [result EXCEPT ![c] = NoResult]
    /\ UNCHANGED << configVars, now, cache, lastOk, freshDeleted >>
    /\ UNCHANGED cache_data

\* _get_cached_response up to cache_file.exists()
GetCachedResponse(c) ==
    /\ pc[c] = "get_cached"
    /\ tCheck' = [tCheck EXCEPT ![c] = now]
    /\ IF cache_enabled /\ Exists(cache, KeyOf(c))
         THEN /\ pc' = [pc EXCEPT ![c] = "read"]
              /\ UNCHANGED result
         ELSE Miss(c)
    /\ UNCHANGED << configVars, now, cache, lastOk, freshDeleted, ncalls, prompt,
                    attempt, last_exception, content, sleeps, errors, nExt, prior,
                    expiredRead >>
    /\ UNCHANGED cache_data

\* _get_cached_response: open and json.load the file, test its age;
\* then `if cached_response: return cached_response` of _call_openai
ReadCache(c) ==
    /\ pc[c] = "read"
    /\ tCheck' = [tCheck EXCEPT ![c] = now]
    /\ IF ~Exists(cache, KeyOf(c))
         THEN \* open() raises: except Exception -> return None
              /\ Miss(c)
              /\ UNCHANGED expiredRead
         ELSE IF ~Loadable(cache[KeyOf(c)])
                THEN \* json.load raises: except Exception -> return None
                     /\ Miss(c)
                     /\ UNCHANGED expiredRead
         ELSE IF Expired(cache[KeyOf(c)], cache_ttl_hours, now)
                THEN /\ pc' = [pc EXCEPT ![c] = "unlink"]
                     /\ expiredRead' = [expiredRead EXCEPT ![c] = TRUE]
                     /\ UNCHANGED result
                ELSE /\ IF cache[KeyOf(c)].response # << >>
                          THEN Complete(c, Returned(cache[KeyOf(c)].response))
                          ELSE Miss(c)
                     /\ UNCHANGED expiredRead
    /\ UNCHANGED << configVars, now, cache, lastOk, freshDeleted, ncalls, prompt,
                    attempt, last_exception, content, sleeps, errors, nExt, prior >>
    /\ UNCHANGED cache_data

\* cache_file.unlink() of an expired entry, then return None
\* (unlink of a missing file raises, which the except clause turns into None)
UnlinkExpired(c) ==
    /\ pc[c] = "unlink"
    /\ cache' = Unlink(cache, KeyOf(c))
    /\ freshDeleted' = (freshDeleted \/ (/\ Exists(cache, KeyOf(c))
                                          /\ Loadable(cache[KeyOf(c)])
                                          /\ now <= cache[KeyOf(c)].timestamp
                                                       + cache_ttl_hours))
    /\ Miss(c)
    /\ UNCHANGED << configVars, now, lastOk, ncalls, prompt, attempt,
                    last_exception, content, sleeps, errors, nExt, tCheck, prior,
                    expiredRead >>
    /\ UNCHANGED cache_data

\* the except clause of the retry loop for the error e of this attempt
HandleError(c, e) ==
    /\ last_exception' = [last_exception EXCEPT ![c] = e]
    /\ errors' = [errors EXCEPT ![c] = Append(@, e)]
    /\ IF attempt[c] < max_retries - 1 /\ IsRetryable(e)
         THEN /\ sleeps' = [sleeps EXCEPT ![c] =
                              Append(@, BackoffDelay(retry_backoff_seconds, attempt[c]))]
              /\ attempt' = [attempt EXCEPT ![c] = @ + 1]
              /\ UNCHANGED << pc, result >>
         ELSE \* break; raise last_exception
              /\ Complete(c, Raised(e))
              /\ UNCHANGED << sleeps, attempt >>
    /\ UNCHANGED content

\* the loop ran no iteration: raise last_exception if last_exception else RuntimeError
LoopExhausted(c) ==
    /\ pc[c] = "attempt"
    /\ attempt[c] >= max_retries
    /\ Complete(c, Raised(IF last_exception[c] # NoException THEN last_exception[c]
                                                     ELSE NoDetailError))
    /\ UNCHANGED << configVars, now, cache, lastOk, freshDeleted, ncalls, prompt,
                    attempt, last_exception, content, sleeps, errors, nExt, tCheck,
                    prior, expiredRead >>
    /\ UNCHANGED cache_data

\* one iteration whose request returns a reply with content `text`
AttemptReply(c, text) ==
    /\ pc[c] = "attempt"
    /\ attempt[c] < max_retries
    /\ nExt' = [nExt EXCEPT ![c] = @ + 1]
    /\ IF Strip(text) = << >>
         THEN \* raise ValueError("Empty response content from OpenAI")
              HandleError(c, EmptyContentError)
         ELSE /\ content' = [content EXCEPT ![c] = Strip(text)]
              /\ pc' = [pc EXCEPT ![c] = "cache_response"]
              /\ UNCHANGED << result, last_exception, errors, sleeps, attempt >>
    /\ UNCHANGED << configVars, now, cache, lastOk, freshDeleted, ncalls, prompt,
                    tCheck, prior, expiredRead >>
    /\ UNCHANGED cache_data

\* one iteration whose request raises e
AttemptError(c, e) ==
    /\ pc[c] = "attempt"
    /\ attempt[c] < max_retries
    /\ nExt' = [nExt EXCEPT ![c] = @ + 1]
    /\ HandleError(c, e)
    /\ UNCHANGED << configVars, now, cache, lastOk, freshDeleted, ncalls, prompt,
                    tCheck, prior, expiredRead >>
    /\ UNCHANGED cache_data

\* self._cache_response(cache_key, content) up to open(cache_file, 'w'):
\* cache_data is built and the file is created or truncated; with the cache
\* disabled _cache_response returns at once and _call_openai returns content
CacheResponse(c) ==
    /\ pc[c] = "cache_response"
    /\ IF cache_enabled
         THEN /\ cache_data' = [cache_data EXCEPT ![c] = CacheData(content[c], now, model[c])]
              /\ cache' = WriteFile(cache, KeyOf(c), EmptyFile)
              /\ pc' = [pc EXCEPT ![c] = "dump"]
              /\ UNCHANGED << result, lastOk >>
         ELSE /\ lastOk' = [lastOk EXCEPT ![KeyOf(c)] = CacheData(content[c], now, model[c])]
              /\ Complete(c, Returned(content[c]))
              /\ UNCHANGED << cache, cache_data >>
    /\ UNCHANGED << configVars, now, freshDeleted, ncalls, prompt, attempt,
                    last_exception, content, sleeps, errors, nExt, tCheck, prior,
                    expiredRead >>

\* json.dump(cache_data, f) and the close of the file, then return content:
\* the handle writes from offset 0 into the file as it is by now (a file that
\* another client unlinked in between is no longer in the directory)
DumpCacheData(c) ==
    /\ pc[c] = "dump"
    /\ IF Exists(cache, KeyOf(c))
         THEN cache' = WriteFile(cache, KeyOf(c), Overlay(cache[KeyOf(c)], cache_data[c]))
         ELSE UNCHANGED cache
    /\ lastOk' = [lastOk EXCEPT ![KeyOf(c)] = cache_data[c]]
    /\ Complete(c, Returned(content[c]))
    /\ UNCHANGED << configVars, now, freshDeleted, ncalls, prompt, attempt,
                    last_exception, content, cache_data, sleeps, errors, nExt, tCheck,
                    prior, expiredRead >>

\* time passes
Tick ==
    /\ now < MaxTime
    /\ now' = now + 1
    /\ UNCHANGED << configVars, cache, clientVars, lastOk, freshDeleted, ncalls >>

ClientStep(c) ==
    \/ GetCachedResponse(c)
    \/ ReadCache(c)
    \/ UnlinkExpired(c)
    \/ LoopExhausted(c)
    \/ \E text \in ServiceContents : AttemptReply(c, text)
    \/ \E e \in ServiceErrors : AttemptError(c, e)
    \/ CacheResponse(c)
    \/ DumpCacheData(c)

NextSeq ==
    \/ \E c \in Clients, p \in SeqPrompts :
           ncalls < MaxCalls /\ CallOpenAI(c, p) /\ UNCHANGED << parseVars, enhVars, scoreVars >>
    \/ \E c \in Clients : ClientStep(c) /\ UNCHANGED << parseVars, enhVars, scoreVars >>
    \/ Tick /\ UNCHANGED << parseVars, enhVars, scoreVars >>

SpecSeq == InitSeq /\ [][NextSeq]_vars

\* two client processes share the cache directory
InitTwo ==
    /\ active = Clients
    /\ openai_enabled = TRUE
    /\ max_retries \in 0..1
    /\ retry_backoff_seconds = 1
    /\ cache_enabled = TRUE
    /\ cache_ttl_hours = 1
    /\ model \in [Clients -> Models]
    /\ now = 0
    /\ cache = << >>
    /\ lastOk = [k \in Keys |-> NoEntry]
    /\ freshDeleted = FALSE
    /\ ncalls = 0
    /\ InitClient
    /\ InitNoParse
    /\ InitNoEnh
    /\ InitNoScore

SpecTwo == InitTwo /\ [][NextSeq]_vars

\* the entry an earlier run left in the cache directory
LeftBehind ==
    [ k \in {GetCacheKey("p1", "gpt-4o-mini")} |->
          CacheData(<<"{", "}">>, 0, "gpt-4o-mini") ]

\* two client processes share a cache directory that holds an entry of an
\* earlier run
InitExpiry ==
    /\ active = Clients
    /\ openai_enabled = TRUE
    /\ max_retries = 1
    /\ retry_backoff_seconds = 1
    /\ cache_enabled = TRUE
    /\ cache_ttl_hours = 1
    /\ model \in [Clients -> Models]
    /\ now = 0
    /\ cache = LeftBehind
    /\ lastOk = [k \in Keys |-> IF k \in DOMAIN cache THEN cache[k] ELSE NoEntry]
    /\ freshDeleted = FALSE
    /\ ncalls = 0
    /\ InitClient
    /\ InitNoParse
    /\ InitNoEnh
    /\ InitNoScore

SpecExpiry == InitExpiry /\ [][NextSeq]_vars

(* ------------------------------------------------------------------ *)
(* _parse_json_response applied to a text                               *)
(* ------------------------------------------------------------------ *)
ParseReply ==
    /\ parseOut = NotParsed
    /\ parseOut' = ParseJsonResponse(parseText)
    /\ UNCHANGED << parseText, llmVars, enhVars, scoreVars >>

NextParse == ParseReply

SpecParse == InitParse /\ [][NextParse]_vars


(* ------------------------------------------------------------------ *)
(* enhance_quality_assessment for one module                            *)
(* ------------------------------------------------------------------ *)
\* the process that runs enhance_quality_assessment
Enhancer == "c1"

\* replies of the service to the prompts of an assessment: no content, the
\* four required members, one of them, prose, an array, an array of the
\* names of the four required members
EnhReplies ==
    { << >>, <<"{", "req", "}">>, <<"{", "part", "}">>, <<"the">>, <<"[", "0", "]">>,
      <<"[", "names", "]">> }

\* errors of the service: one transient, one permanent
EnhErrors == { <<"Rate", "limit", "exceeded">>, <<"Invalid", "API", "key">> }

\* the replies and errors tried for a prompt: all of them for the two
\* prompts that ask for the overall assessment, a member and prose, and the
\* permanent error, for the three others
RepliesTo(p) ==
    IF p \in {"comprehensive", "overall_assessment"} THEN EnhReplies
    ELSE { <<"{", "part", "}">>, <<"the">> }

ErrorsTo(p) ==
    IF p \in {"comprehensive", "overall_assessment"} THEN EnhErrors
    ELSE { <<"Invalid", "API", "key">> }

\* the cache directory when the assessment begins: empty, or holding
\* replies stored by an earlier assessment of the same module
StoredBefore ==
    { << >>,
      [ k \in {GetCacheKey("comprehensive", "gpt-4o-mini")} |->
            CacheData(<<"{", "req", "}">>, 0, "gpt-4o-mini") ],
      [ k \in {GetCacheKey("comprehensive", "gpt-4o-mini")} |->
            CacheData(<<"the">>, 0, "gpt-4o-mini") ],
      [ k \in {GetCacheKey("overall_assessment", "gpt-4o-mini")} |->
            CacheData(<<"{", "req", "}">>, 0, "gpt-4o-mini") ] }

\* len(content) of the modules: no content, a small module, the two sides
\* of the limit of the code review
ContentLens == {0, 120, 4999, 5000}

\* quality_metrics.get('security', {}) is a non-empty mapping
HasSecurityMetrics(metrics) == \E i \in 1..Len(metrics) : metrics[i].name = "security"

\* a plan whose code review has no limit on the size of the content
IndividualPlanNoLimit(metrics, len) ==
    <<"overall_assessment">>
    \o (IF len > 0 THEN <<"code_review", "pattern_analysis">> ELSE << >>)
    \o (IF HasSecurityMetrics(metrics) /\ len > 0
        THEN <<"security_assessment">> ELSE << >>)

\* the calls of _fallback_to_individual_assessments, in order
IndividualPlan(metrics, len) ==
    <<"overall_assessment">>
    \o (IF len > 0 /\ len < 5000 THEN <<"code_review">> ELSE << >>)
    \o (IF len > 0 THEN <<"pattern_analysis">> ELSE << >>)
    \o (IF HasSecurityMetrics(metrics) /\ len > 0
        THEN <<"security_assessment">> ELSE << >>)

\* the position of a call in the plan; "comprehensive" comes before the plan
PlanIndex(plan, kind) ==
    IF \E i \in 1..Len(plan) : plan[i] = kind
    THEN CHOOSE i \in 1..Len(plan) : plan[i] = kind
    ELSE 0

\* get_cache_stats()
GetCacheStats ==
    IF ~cache_enabled THEN [cache_enabled |-> FALSE]
    ELSE [ cache_enabled |-> TRUE,
           total_cached_responses |-> Cardinality(DOMAIN cache),
           expired_responses |->
               Cardinality({k \in DOMAIN cache : Expired(cache[k], cache_ttl_hours, now)}),
           cache_ttl_hours |-> cache_ttl_hours ]

\* the sub-call of the current position has ended
SubCallEnded(kind) ==
    /\ enhPc = kind
    /\ pc[Enhancer] = "idle"
    /\ result[Enhancer].kind # "none"

\* the parsed reply of the sub-call that returned
ParsedReply == ParseJsonResponse(result[Enhancer].value).value

\* enhance_quality_assessment adds llm_metadata and returns
Finish(assessment) ==
    /\ enhanced' =
           SetItem(assessment, "llm_metadata",
                   [ model_used |-> model[Enhancer],
                     content_analyzed |-> contentLen > 0,
                     assessments_performed |-> DOMAIN assessment,
                     cache_stats |-> GetCacheStats ])
    /\ enhPc' = "done"
    /\ enhCacheOps' = enhCacheOps + (IF cache_enabled THEN 1 ELSE 0)
    /\ UNCHANGED << llmVars, enhCalled >>

\* _fallback_to_individual_assessments goes on to its next call, or returns
Proceed(kind, assessment) ==
    LET plan == IndividualPlan(quality_metrics, contentLen)
        i == PlanIndex(plan, kind)
    IN  IF i < Len(plan)
        THEN /\ CallOpenAI(Enhancer, plan[i + 1])
             /\ enhCalled' = Append(enhCalled, plan[i + 1])
             /\ enhPc' = plan[i + 1]
             /\ enhanced' = assessment
             /\ UNCHANGED enhCacheOps
        ELSE Finish(assessment)

\* a test of the switch that never takes the fallback
FallbackNever == FALSE

\* if not self.openai_enabled: return self._generate_fallback_assessment(...)
FallbackOnly == ~openai_enabled

\* enhance_quality_assessment up to its first call of _call_openai
BeginAssessment ==
    /\ enhSent' = << >>
    /\ enhCacheOps' = 0
    /\ compOutcome' = "none"
    /\ overallOutcome' = "none"
    /\ IF FallbackOnly
         THEN /\ enhanced' = GenerateFallbackAssessment(quality_metrics)
              /\ enhPc' = "done"
              /\ enhCalled' = << >>
              /\ UNCHANGED llmVars
         ELSE /\ CallOpenAI(Enhancer, "comprehensive")
              /\ enhCalled' = <<"comprehensive">>
              /\ enhPc' = "comprehensive"
              /\ enhanced' = EmptyDict
    /\ UNCHANGED << quality_metrics, contentLen, parseVars, scoreVars >>

\* entry of enhance_quality_assessment
EnhanceQualityAssessment == enhPc = "idle" /\ BeginAssessment

\* the calls of _call_openai one assessment can make
MaxPrompts == Cardinality(EnhPrompts)

\* enhance_quality_assessment is called again for the same module, with the
\* cache directory as the assessments before left it
EnhanceAgain == enhPc = "done" /\ ncalls <= MaxPrompts /\ BeginAssessment

\* _get_comprehensive_quality_assessment after its _call_openai
ComprehensiveReturns ==
    /\ SubCallEnded("comprehensive")
    /\ IF result[Enhancer].kind = "return" /\ HasRequiredKeys(ParsedReply)
         THEN IF IsMapping(ParsedReply)
              THEN /\ compOutcome' = "ok"
                   /\ Finish(AsMapping(ParsedReply))
              ELSE \* the result is no dict: building llm_metadata raises,
                   \* the except clause of enhance_quality_assessment returns
                   /\ compOutcome' = "not_dict"
                   /\ enhanced' = GenerateFallbackAssessment(quality_metrics)
                   /\ enhPc' = "done"
                   /\ UNCHANGED << llmVars, enhCalled, enhCacheOps >>
         ELSE /\ compOutcome' = IF result[Enhancer].kind = "raise"
                                THEN "raised" ELSE "missing"
              /\ Proceed("comprehensive", EmptyDict)
    /\ UNCHANGED << quality_metrics, contentLen, overallOutcome, enhSent, parseVars, scoreVars >>

\* _get_overall_assessment after its _call_openai, then enhanced_assessment.update
OverallReturns ==
    /\ SubCallEnded("overall_assessment")
    /\ Proceed("overall_assessment",
               Update(enhanced,
                      \* update() with a value that is no dict raises, and
                      \* the except clause updates with the fallback
                      IF /\ result[Enhancer].kind = "return"
                         /\ HasRequiredKeys(ParsedReply)
                         /\ IsMapping(ParsedReply)
                      THEN AsMapping(ParsedReply)
                      ELSE GenerateFallbackAssessment(quality_metrics)))
    /\ overallOutcome' = IF result[Enhancer].kind = "raise" THEN "raised"
                         ELSE IF ~HasRequiredKeys(ParsedReply) THEN "missing"
                         ELSE IF IsMapping(ParsedReply) THEN "ok"
                         ELSE "not_dict"
    /\ UNCHANGED << quality_metrics, contentLen, compOutcome, enhSent, parseVars, scoreVars >>

\* _get_code_review after its _call_openai
CodeReviewReturns ==
    /\ SubCallEnded("code_review")
    /\ Proceed("code_review",
               SetItem(enhanced, "code_review",
                       IF result[Enhancer].kind = "return"
                       THEN ParsedReply ELSE ReviewUnavailable))
    /\ UNCHANGED << quality_metrics, contentLen, compOutcome, overallOutcome, enhSent,
                    parseVars, scoreVars >>

\* _get_pattern_analysis after its _call_openai
PatternReturns ==
    /\ SubCallEnded("pattern_analysis")
    /\ Proceed("pattern_analysis",
               SetItem(enhanced, "pattern_analysis",
                       IF /\ result[Enhancer].kind = "return"
                          /\ IsMapping(ParsedReply)
                          /\ ParsedReply # EmptyMapping
                       THEN ParsedReply ELSE FallbackPatternAnalysis))
    /\ UNCHANGED << quality_metrics, contentLen, compOutcome, overallOutcome, enhSent,
                    parseVars, scoreVars >>

\* _get_security_assessment after its _call_openai
SecurityReturns ==
    /\ SubCallEnded("security_assessment")
    /\ Proceed("security_assessment",
               SetItem(enhanced, "security_assessment",
                       IF result[Enhancer].kind = "return"
                       THEN ParsedReply ELSE SecurityUnknown))
    /\ UNCHANGED << quality_metrics, contentLen, compOutcome, overallOutcome, enhSent,
                    parseVars, scoreVars >>

\* the steps of _call_openai inside the invocation
EnhUnchanged ==
    UNCHANGED << quality_metrics, contentLen, enhPc, enhanced, compOutcome,
                 overallOutcome, enhCalled, parseVars, scoreVars >>

\* one module's assessment takes less than an hour: the clock stands still
\* and no entry expires between the calls
NextEnh ==
    \/ EnhanceQualityAssessment
    \/ /\ GetCachedResponse(Enhancer)
       /\ enhCacheOps' = enhCacheOps + (IF cache_enabled THEN 1 ELSE 0)
       /\ UNCHANGED enhSent /\ EnhUnchanged
    \/ /\ ReadCache(Enhancer)
       /\ enhCacheOps' = enhCacheOps + 1
       /\ UNCHANGED enhSent /\ EnhUnchanged
    \/ /\ LoopExhausted(Enhancer)
       /\ UNCHANGED << enhSent, enhCacheOps >> /\ EnhUnchanged
    \/ \E text \in RepliesTo(prompt[Enhancer]) :
          /\ AttemptReply(Enhancer, text)
          /\ enhSent' = Append(enhSent, prompt[Enhancer])
          /\ UNCHANGED enhCacheOps /\ EnhUnchanged
    \/ \E e \in ErrorsTo(prompt[Enhancer]) :
          /\ AttemptError(Enhancer, e)
          /\ enhSent' = Append(enhSent, prompt[Enhancer])
          /\ UNCHANGED enhCacheOps /\ EnhUnchanged
    \/ /\ CacheResponse(Enhancer)
       /\ enhCacheOps' = enhCacheOps + (IF cache_enabled THEN 1 ELSE 0)
       /\ UNCHANGED enhSent /\ EnhUnchanged
    \/ /\ DumpCacheData(Enhancer)
       /\ UNCHANGED << enhSent, enhCacheOps >> /\ EnhUnchanged
    \/ ComprehensiveReturns
    \/ OverallReturns
    \/ CodeReviewReturns
    \/ PatternReturns
    \/ SecurityReturns

\* one process assesses one module
InitEnh ==
    /\ active = {Enhancer}
    /\ openai_enabled \in BOOLEAN
    /\ max_retries \in {0, 2}
    /\ retry_backoff_seconds = 1
    /\ cache_enabled \in BOOLEAN
    /\ cache_ttl_hours = 1
    /\ model = [c \in Clients |-> "gpt-4o-mini"]
    /\ now = 0
    /\ cache \in (IF cache_enabled THEN StoredBefore ELSE {<< >>})
    /\ lastOk = [k \in Keys |-> IF k \in DOMAIN cache THEN cache[k] ELSE NoEntry]
    /\ freshDeleted = FALSE
    /\ ncalls = 0
    /\ InitClient
    /\ InitNoParse
    /\ InitNoScore
    /\ quality_metrics \in MetricProfiles
    /\ contentLen \in ContentLens
    /\ enhPc = "idle"
    /\ enhanced = EmptyDict
    /\ compOutcome = "none"
    /\ overallOutcome = "none"
    /\ enhCalled = << >>
    /\ enhSent = << >>
    /\ enhCacheOps = 0

SpecEnh == InitEnh /\ [][NextEnh]_vars

\* the module is assessed repeatedly, starting with an empty cache directory
InitAgain ==
    /\ InitEnh
    /\ openai_enabled
    /\ cache_enabled
    /\ cache = << >>
    /\ quality_metrics = MetricsOf(<<90, 40, 70, 70, 70, 70, 110>>)
    /\ contentLen \in {0, 120}

NextAgain == NextEnh \/ EnhanceAgain

SpecAgain == InitAgain /\ [][NextAgain]_vars

(* ------------------------------------------------------------------ *)
(* QualityAnalyzer: the seven scorers of _analyze_module_quality        *)
(* ------------------------------------------------------------------ *)
\* Scores are exact fractions <<numerator, denominator>> in lowest terms,
\* denominator positive.
RECURSIVE Gcd(_, _)
Gcd(a, b) == IF b = 0 THEN a ELSE Gcd(b, a % b)

Abs(n) == IF n < 0 THEN -n ELSE n

Frac(n, d) ==
    LET g == Gcd(Abs(n), d)
    IN  IF g = 0 THEN <<0, 1>> ELSE <<n \div g, d \div g>>

FAdd(a, b) == Frac(a[1] * b[2] + b[1] * a[2], a[2] * b[2])
FSub(a, b) == Frac(a[1] * b[2] - b[1] * a[2], a[2] * b[2])
FDiv(a, k) == Frac(a[1], a[2] * k)
FLeq(a, b) == a[1] * b[2] <= b[1] * a[2]
FMin(a, b) == IF FLeq(a, b) THEN a ELSE b
FMax(a, b) == IF FLeq(a, b) THEN b ELSE a
Zero == <<0, 1>>
One == <<1, 1>>

\* The text of a module is the sequence of its lines, content.split('\n'),
\* each line one of:
\*   blank        (the empty line)
\*   docstring    """Load the data."""
\*   quotes       """
\*   todo         # TODO tidy up
\*   def_snake    def load(path):
\*   def_test     def test_load():
\*   def_camel    def Load(path):
\*   def_init     "    def __init__(self, repo):"
\*   class_base   class Loader(Base):
\*   class_lower  class loader:
\*   try          "    try:"
\*   pass         "    pass"
\*   eval         "  x = eval(s) "       (two leading blanks, one trailing)
\*   assert       "    assert isinstance(x, int)"
\*   log          "      logging.info(msg)  # trace"
\*   property     "    @property"
\*   long         x = "aaa...a"          (96 characters)
\*   main         if __name__ == "__main__":
\*   mock         "    run(Mock())"
Lines ==
    { "blank", "docstring", "quotes", "todo", "def_snake", "def_test", "def_camel",
      "def_init", "class_base", "class_lower", "try", "pass", "eval", "assert", "log",
      "property", "long", "main", "mock" }

\* number of lines of a line set in the content
Count(S, lines) == Cardinality({i \in 1..Len(lines) : lines[i] \in S})

\* sum of a per-line count over the content
RECURSIVE Total(_, _)
Total(f, lines) ==
    IF lines = << >> THEN 0 ELSE f[Head(lines)] + Total(f, Tail(lines))

\* re.search(pattern, content) for a pattern matched by the lines of S
Search(S, lines) == \E i \in 1..Len(lines) : lines[i] \in S

\* occurrences of """ in a line
TripleQuotes ==
    [l \in Lines |-> IF l = "docstring" THEN 2 ELSE IF l = "quotes" THEN 1 ELSE 0]

\* the lines in which each pattern or test of the scorers is found
LinesMatching ==
    [ \* lines matching def\s+\w+\s*\(
      function_defs |->
          {"def_snake", "def_test", "def_camel", "def_init"},
      \* lines matching class\s+\w+\s*[\(:]
      class_defs |->
          {"class_base", "class_lower"},
      \* lines matching #[^#]
      inline_comments |->
          {"todo", "log"},
      \* line.strip() is not empty
      non_blank |->
          Lines \ {"blank"},
      \* re.match(r'\s*def\s+', line)
      def_lines |->
          {"def_snake", "def_test", "def_camel", "def_init"},
      \* re.match(r'^[a-zA-Z]', line)
      top_level |->
          {"def_snake", "def_test", "def_camel", "class_base", "class_lower", "long",
           "main"},
      \* line.strip().startswith('"""')
      docstring_start |->
          {"docstring", "quotes"},
      \* lines matching def\s+test_\w+\s*\(
      test_functions |->
          {"def_test"},
      \* lines matching assert\s+
      assert_statements |->
          {"assert"},
      \* lines matching mock\.|Mock\(|patch\(
      mock_usage |->
          {"mock"},
      \* lines matching def\s+__init__\s*\([^)]*\w+[^)]*\)
      constructor_params |->
          {"def_init"},
      \* lines matching if\s+__name__\s*==\s*["\']__main__["\']:
      main_guard |->
          {"main"},
      \* lines matching one of the seven design pattern signatures (@\w+)
      pattern_matches |->
          {"property"},
      \* lines matching class\s+\w+\s*\([^)]+\):
      inheritance |->
          {"class_base"},
      \* lines matching @property
      properties |->
          {"property"},
      \* lines matching @abstractmethod|@abc\.abstractmethod
      abstract_methods |->
          {},
      \* len(line) > 88
      long_lines |->
          {"long"},
      \* line.endswith(' ') or line.endswith('\t')
      trailing_whitespace |->
          {"eval"},
      \* lines matching def\s+[a-z_][a-z0-9_]*\s*\(
      snake_case_functions |->
          {"def_snake", "def_test", "def_init"},
      \* lines matching class\s+[A-Z][a-zA-Z0-9]*\s*[\(:]
      camel_case_classes |->
          {"class_base"} ]

\* self.quality_patterns['good_patterns']: the lines each pattern is found in
GoodPatterns ==
    << {"class_base"},      \* class\s+\w+\([A-Z]\w*\):
       {"def_test"},        \* def\s+test_\w+\(
       {"docstring"},       \* """.*?"""
       {"property"},        \* @property
       {},                  \* @staticmethod|@classmethod
       {"main"},            \* if\s+__name__\s*==\s*["\']__main__["\']:
       {"log"},             \* logging\.
       {} >>                \* try:.*?except.*?:

\* self.quality_patterns['bad_patterns']
BadPatterns ==
    << {},                  \* global\s+\w+
       {},                  \* exec\s*\(
       {"eval"},            \* eval\s*\(
       {},                  \* import\s*\*
       {"todo"},            \* #\s*TODO|#\s*FIXME|#\s*HACK
       {},                  \* print\s*\(
       {"pass"} >>          \* pass\s*$

\* len(line) - len(line.lstrip())
Indent ==
    [l \in Lines |->
        IF l \in {"def_init", "try", "pass", "assert", "property", "mock"} THEN 4
        ELSE IF l = "eval" THEN 2 ELSE IF l = "log" THEN 6 ELSE 0]
\* matches of the five security_issues patterns in a line (eval\s*\()
SecurityIssues == [l \in Lines |-> IF l = "eval" THEN 1 ELSE 0]
\* matches of the three security_practices patterns in a line: try\s*: in
\* try, assert\s+ and isinstance\s*\( in assert, logging\. in log
SecurityPractices ==
    [l \in Lines |-> IF l = "assert" THEN 2 ELSE IF l \in {"try", "log"} THEN 1 ELSE 0]

RECURSIVE Sum(_)
Sum(s) == IF s = << >> THEN 0 ELSE Head(s) + Sum(Tail(s))

\* a bool used as a number
Bit(b) == IF b THEN 1 ELSE 0

\* max(0.0, min(1.0, x))
Clamp(x) == FMax(Zero, FMin(One, x))

\* np.mean(values) if values else default
MeanOr(values, default) ==
    IF values = << >> THEN default ELSE Frac(Sum(values), Len(values))

\* _analyze_complexity_quality: function_complexities is the complexity of
\* each entry of module['functions']
avg_complexity(function_complexities) == MeanOr(function_complexities, One)

complexity_score(function_complexities) ==
    Clamp(FDiv(FSub(Frac(10, 1), avg_complexity(function_complexities)), 10))

\* _analyze_documentation_quality
docstrings(lines) == Total(TripleQuotes, lines) \div 2

total_items(lines) == Count(LinesMatching.function_defs, lines) + Count(LinesMatching.class_defs, lines)

doc_ratio(lines) ==
    IF total_items(lines) > 0 THEN Frac(docstrings(lines), total_items(lines)) ELSE Zero

has_module_docstring(lines) ==
    LET stripped == SelectSeq(lines, LAMBDA l : l \in LinesMatching.non_blank)
    IN  stripped # << >> /\ Head(stripped) \in LinesMatching.docstring_start

has_inline_comments(lines) == Count(LinesMatching.inline_comments, lines) > 0

doc_score(lines) ==
    LET base_score ==
            FAdd(FAdd(doc_ratio(lines),
                      IF has_module_docstring(lines) THEN Frac(2, 10) ELSE Zero),
                 IF has_inline_comments(lines) THEN Frac(1, 10) ELSE Zero)
    IN  FMin(One, base_score)

\* _analyze_maintainability: the loop over the lines, from the line at the
\* head, with in_function, current_function_length and function_lengths
RECURSIVE ScanFunctions(_, _, _, _)
ScanFunctions(lines, in_function, current_function_length, lengths) ==
    IF lines = << >> THEN lengths
    ELSE LET line == Head(lines)
             counted == current_function_length + (IF line \in LinesMatching.non_blank THEN 1 ELSE 0)
         IN  IF line \in LinesMatching.def_lines
             THEN ScanFunctions(Tail(lines), TRUE, 1,
                                IF in_function /\ current_function_length > 0
                                THEN Append(lengths, current_function_length)
                                ELSE lengths)
             ELSE IF in_function
             THEN IF line \in LinesMatching.top_level
                  THEN ScanFunctions(Tail(lines), FALSE, counted, Append(lengths, counted))
                  ELSE ScanFunctions(Tail(lines), TRUE, counted, lengths)
             ELSE ScanFunctions(Tail(lines), in_function, current_function_length, lengths)

function_lengths(lines) == ScanFunctions(lines, FALSE, 0, << >>)

avg_function_length(lines) == MeanOr(function_lengths(lines), Zero)

good_patterns(lines) ==
    Cardinality({p \in 1..Len(GoodPatterns) : Search(GoodPatterns[p], lines)})

bad_patterns(lines) ==
    Cardinality({p \in 1..Len(BadPatterns) : Search(BadPatterns[p], lines)})

length_score(lines) ==
    Clamp(FDiv(FSub(Frac(50, 1), avg_function_length(lines)), 50))

pattern_score(lines) ==
    Clamp(Frac(good_patterns(lines) - bad_patterns(lines) * 2,
               Max(1, good_patterns(lines) + bad_patterns(lines))))

maintainability_score(lines) ==
    FDiv(FAdd(length_score(lines), pattern_score(lines)), 2)

\* _analyze_testability
total_functions(lines) == Count(LinesMatching.function_defs, lines)

test_coverage_score(lines) ==
    IF total_functions(lines) > 0
    THEN Frac(Count(LinesMatching.test_functions, lines), Max(1, total_functions(lines)))
    ELSE Zero

testability_indicators(lines) ==
    Bit(Search(LinesMatching.assert_statements, lines)) + Bit(Search(LinesMatching.mock_usage, lines))
    + Bit(Search(LinesMatching.main_guard, lines)) + Bit(Search(LinesMatching.constructor_params, lines))

testability_score(lines) ==
    FDiv(FAdd(test_coverage_score(lines), Frac(testability_indicators(lines), 4)), 2)

\* _analyze_design_patterns
total_patterns(lines) == Count(LinesMatching.pattern_matches, lines)

oop_score(lines) ==
    Frac(Bit(Search(LinesMatching.inheritance, lines)) + Bit(Search(LinesMatching.properties, lines))
         + Bit(Search(LinesMatching.abstract_methods, lines)), 3)

pattern_density(lines) == Frac(total_patterns(lines) * 100, Max(1, Len(lines)))

design_score(lines) == FMin(One, FAdd(pattern_density(lines), oop_score(lines)))

\* _check_indentation_consistency(lines)
CheckIndentationConsistency(lines) ==
    LET indentations ==
            {Indent[lines[i]] : i \in {j \in 1..Len(lines) : lines[j] \in LinesMatching.non_blank}} \ {0}
        min_indent == CHOOSE m \in indentations : \A x \in indentations : m <= x
    IN  IF indentations = {} THEN FALSE
        ELSE ~(\A indent \in indentations : indent % min_indent = 0)

\* _analyze_code_style
line_length_score(lines) ==
    FMax(Zero, FSub(One, Frac(Count(LinesMatching.long_lines, lines), Max(1, Len(lines)))))

indentation_score(lines) ==
    IF ~CheckIndentationConsistency(lines) THEN One ELSE Frac(1, 2)

whitespace_score(lines) == IF Search(LinesMatching.trailing_whitespace, lines) THEN Zero ELSE One

naming_score(lines) ==
    LET functions == Count(LinesMatching.function_defs, lines)
        classes == Count(LinesMatching.class_defs, lines)
    IN  IF functions + classes > 0
        THEN FDiv(FAdd(Frac(Count(LinesMatching.snake_case_functions, lines), Max(1, functions)),
                       Frac(Count(LinesMatching.camel_case_classes, lines), Max(1, classes))), 2)
        ELSE One

style_score(lines) ==
    FDiv(FAdd(FAdd(line_length_score(lines), indentation_score(lines)),
              FAdd(whitespace_score(lines), naming_score(lines))), 4)

\* _analyze_security_quality
total_issues(lines) == Total(SecurityIssues, lines)

total_practices(lines) == Total(SecurityPractices, lines)

issue_penalty(lines) == FMin(One, Frac(total_issues(lines) * 2, 10))

practice_bonus(lines) == FMin(Frac(1, 2), Frac(total_practices(lines), 10))

security_score(lines) ==
    FMax(Zero, FAdd(FSub(One, issue_penalty(lines)), practice_bonus(lines)))

\* self.weights, in hundredths
Weights ==
    [ complexity |-> 20, documentation |-> 15, maintainability |-> 20,
      testability |-> 15, design_patterns |-> 10, code_style |-> 10,
      security |-> 10 ]

\* QualityMetric(name=..., score=..., weight=self.weights[key]) stored as metrics[key]
QualityMetric(key, name, score) ==
    [key |-> key, name |-> name, score |-> score, weight |-> Weights[key]]

\* the keys of metrics in the order _analyze_module_quality inserts them
MetricKeys ==
    << "complexity", "documentation", "maintainability", "testability",
       "design_patterns", "code_style", "security" >>

\* a documented test module: a class with a property, the main guard, and a
\* test function with its docstring and assertions at the end of the file
TestModule ==
    << "docstring", "class_base", "property", "main", "mock", "def_test", "docstring",
       "assert", "assert", "assert" >>

\* the modules scored: a text of up to MaxLines lines, or the test module
\* with or without its last assertion, and the complexities of the functions
\* the parser found (none, a simple one, two of which one is complex, one far
\* beyond the scale)
Contents ==
    UNION { [1..n -> Lines] : n \in 1..MaxLines }
    \cup { TestModule, SubSeq(TestModule, 1, Len(TestModule) - 1) }

FunctionLists == { << >>, <<1>>, <<5, 12>>, <<30>> }

Modules == [content : Contents, functions : FunctionLists]

\* metrics[key] = QualityMetric(...), the next of the seven assignments
SetMetric(key, name, score) ==
    /\ Len(moduleMetrics) < Len(MetricKeys)
    /\ MetricKeys[Len(moduleMetrics) + 1] = key
    /\ moduleMetrics' = Append(moduleMetrics, QualityMetric(key, name, score))
    /\ UNCHANGED << module, assessVars, rollupVars, llmVars, parseVars, enhVars >>

\* a fraction times an integer
FScale(a, k) == Frac(a[1] * k, a[2])

\* no score has been computed yet
NotComputed == <<0, 0>>

\* an overall score that pays no attention to the weights
RECURSIVE SumOfScores(_)
SumOfScores(metrics) ==
    IF metrics = << >> THEN Zero
    ELSE FAdd(Head(metrics).score, SumOfScores(Tail(metrics)))

CalculateOverallScoreUnweighted(metrics) ==
    IF metrics = << >> THEN Zero ELSE FDiv(SumOfScores(metrics), Len(metrics))

\* _calculate_overall_score: the two accumulators of the loop
RECURSIVE total_weighted_score(_)
total_weighted_score(metrics) ==
    IF metrics = << >> THEN Zero
    ELSE FAdd(FScale(Head(metrics).score, Head(metrics).weight),
              total_weighted_score(Tail(metrics)))

RECURSIVE total_weight(_)
total_weight(metrics) ==
    IF metrics = << >> THEN 0 ELSE Head(metrics).weight + total_weight(Tail(metrics))

\* _calculate_overall_score(metrics)
CalculateOverallScore(metrics) ==
    IF total_weight(metrics) > 0
    THEN FDiv(total_weighted_score(metrics), total_weight(metrics))
    ELSE Zero

\* self.quality_thresholds
QualityThresholds ==
    [ excellent |-> Frac(85, 100), good |-> Frac(70, 100), fair |-> Frac(55, 100),
      poor |-> Frac(40, 100) ]

\* a lookup whose boundaries are open on the lower bound
DetermineQualityLevelOpen(score) ==
    IF ~FLeq(score, QualityThresholds.excellent) THEN "excellent"
    ELSE IF ~FLeq(score, QualityThresholds.good) THEN "good"
    ELSE IF ~FLeq(score, QualityThresholds.fair) THEN "fair"
    ELSE IF ~FLeq(score, QualityThresholds.poor) THEN "poor"
    ELSE "critical"

\* _determine_quality_level(score)
DetermineQualityLevel(score) ==
    IF FLeq(QualityThresholds.excellent, score) THEN "excellent"
    ELSE IF FLeq(QualityThresholds.good, score) THEN "good"
    ELSE IF FLeq(QualityThresholds.fair, score) THEN "fair"
    ELSE IF FLeq(QualityThresholds.poor, score) THEN "poor"
    ELSE "critical"

\* overall_score = self._calculate_overall_score(metrics)
SetOverallScore ==
    /\ overall_score = NotComputed
    /\ overall_score' = CalculateOverallScore(moduleMetrics)
    /\ UNCHANGED << module, moduleMetrics, quality_level, recVars, rollupVars, llmVars,
                    parseVars, enhVars >>

\* quality_level = self._determine_quality_level(overall_score)
SetQualityLevel ==
    /\ overall_score # NotComputed
    /\ quality_level = "none"
    /\ quality_level' = DetermineQualityLevel(overall_score)
    /\ UNCHANGED << module, moduleMetrics, overall_score, recVars, rollupVars, llmVars,
                    parseVars, enhVars >>

AnalyzeComplexityQuality ==
    SetMetric("complexity", "Complexity", complexity_score(module.functions))

AnalyzeDocumentationQuality ==
    SetMetric("documentation", "Documentation", doc_score(module.content))

AnalyzeMaintainability ==
    SetMetric("maintainability", "Maintainability", maintainability_score(module.content))

AnalyzeTestability ==
    SetMetric("testability", "Testability", testability_score(module.content))

AnalyzeDesignPatterns ==
    SetMetric("design_patterns", "Design Patterns", design_score(module.content))

AnalyzeCodeStyle ==
    SetMetric("code_style", "Code Style", style_score(module.content))

AnalyzeSecurityQuality ==
    SetMetric("security", "Security", security_score(module.content))

InitScore ==
    /\ InitNoClient
    /\ InitNoParse
    /\ InitNoEnh
    /\ module \in Modules
    /\ moduleMetrics = << >>
    /\ overall_score = NotComputed
    /\ quality_level = "none"
    /\ InitNoRecs
    /\ InitNoRollup

NextScore ==
    \/ AnalyzeComplexityQuality
    \/ AnalyzeDocumentationQuality
    \/ AnalyzeMaintainability
    \/ AnalyzeTestability
    \/ AnalyzeDesignPatterns
    \/ AnalyzeCodeStyle
    \/ AnalyzeSecurityQuality
    \/ Len(moduleMetrics) = Len(MetricKeys) /\ SetOverallScore
    \/ Len(moduleMetrics) = Len(MetricKeys) /\ SetQualityLevel

SpecScore == InitScore /\ [][NextScore]_vars

\* _calculate_overall_score and _determine_quality_level on any metrics:
\* up to MaxMetrics entries, each with one of the scores below (among them
\* the thresholds, values just under them and a score above 1) and a
\* positive weight
ScoreValues ==
    { Zero, One, Frac(85, 100), Frac(8499, 10000), Frac(70, 100), Frac(6999, 10000),
      Frac(55, 100), Frac(40, 100), Frac(3999, 10000), Frac(11, 10) }

WeightValues == {10, 15, 20}

AnyMetrics ==
    UNION { [1..n -> [score : ScoreValues, weight : WeightValues]] : n \in 0..MaxMetrics }

InitOverall ==
    /\ InitNoClient
    /\ InitNoParse
    /\ InitNoEnh
    /\ module = [content |-> <<"blank">>, functions |-> << >>]
    /\ moduleMetrics \in AnyMetrics
    /\ overall_score = NotComputed
    /\ quality_level = "none"
    /\ InitNoRecs
    /\ InitNoRollup

NextOverall ==
    \/ SetOverallScore
    \/ SetQualityLevel

SpecOverall == InitOverall /\ [][NextOverall]_vars

(* ------------------------------------------------------------------ *)
(* Module recommendations: _get_llm_assessment,                         *)
(* _get_improvement_priority, _generate_module_recommendations          *)
(* ------------------------------------------------------------------ *)
\* the elements of a list
Range(s) == { s[i] : i \in 1..Len(s) }

RECURSIVE Flatten(_)
Flatten(ss) == IF ss = << >> THEN << >> ELSE Head(ss) \o Flatten(Tail(ss))

\* impact = (1.0 - metric.score) * metric.weight
Impact(metric) == FScale(FSub(One, metric.score), metric.weight)

\* one step of the stable descending sort: the metric goes behind every
\* metric whose impact is at least its own
InsertByImpact(sorted, metric) ==
    LET k == Cardinality({ i \in 1..Len(sorted) : FLeq(Impact(metric), Impact(sorted[i])) })
    IN  SubSeq(sorted, 1, k) \o << metric >> \o SubSeq(sorted, k + 1, Len(sorted))

\* priorities.sort(key=lambda x: x[1], reverse=True)
RECURSIVE SortByImpact(_)
SortByImpact(metrics) ==
    IF metrics = << >> THEN << >>
    ELSE InsertByImpact(SortByImpact(SubSeq(metrics, 1, Len(metrics) - 1)),
                        metrics[Len(metrics)])

\* _get_improvement_priority(metrics): [name for name, _ in priorities[:3]]
GetImprovementPriority(metrics) ==
    LET priorities == SortByImpact(metrics)
    IN  [i \in 1..Min(3, Len(priorities)) |-> priorities[i].key]

\* _get_llm_assessment(module, metrics, ai_analysis): the entry that
\* _generate_module_recommendations reads
GetLlmAssessment(metrics) == [improvement_priority |-> GetImprovementPriority(metrics)]

\* f"Focus on improving {priority.lower()} as a priority"
PriorityItem(priority) == <<"Focus on improving ", LowerToken(priority), " as a priority">>

\* recommendations before the duplicates are removed: every metric's
\* suggestions, then an item for each of priorities[:2]
CollectRecommendations(metrics, assessment) ==
    LET priorities == assessment.improvement_priority
    IN  Flatten([i \in 1..Len(metrics) |-> metrics[i].suggestions])
        \o [i \in 1..Min(2, Len(priorities)) |-> PriorityItem(priorities[i])]

\* a conversion that keeps the duplicates
KeepDuplicates(list) == { list }

\* list(set(recommendations)): the elements once each, in an order the set
\* decides
ListOfSet(list) ==
    { s \in [1..Cardinality(Range(list)) -> Range(list)] :
        \A i, j \in DOMAIN s : i # j => s[i] # s[j] }

\* llm_assessment = self._get_llm_assessment(module, metrics, ai_analysis)
SetLlmAssessment ==
    /\ assessPc = "metrics"
    /\ llm_assessment' = GetLlmAssessment(moduleMetrics)
    /\ assessPc' = "llm"
    /\ UNCHANGED << module, moduleMetrics, overall_score, quality_level, recommendations,
                    rollupVars, llmVars, parseVars, enhVars >>

\* recommendations = self._generate_module_recommendations(metrics, llm_assessment)
GenerateModuleRecommendations ==
    /\ assessPc = "llm"
    /\ \E list \in ListOfSet(CollectRecommendations(moduleMetrics, llm_assessment)) :
          recommendations' = list
    /\ assessPc' = "done"
    /\ UNCHANGED << module, moduleMetrics, overall_score, quality_level, llm_assessment,
                    rollupVars, llmVars, parseVars, enhVars >>

\* the metrics of one module: up to MaxMetrics of the seven, each with a
\* score, a weight and up to two suggestions
Suggestions == { << >>, << <<"s1">> >>, << <<"s1">>, <<"s2">> >> }

MetricsWithSuggestions ==
    UNION { { [i \in 1..n |->
                 [key |-> MetricKeys[i], score |-> m[i].score, weight |-> m[i].weight,
                  suggestions |-> m[i].suggestions]] :
              m \in [1..n -> [score : {Zero, One}, weight : {10, 20},
                              suggestions : Suggestions]] } :
            n \in 0..MaxMetrics }

InitRecs ==
    /\ InitNoClient
    /\ InitNoParse
    /\ InitNoEnh
    /\ module = [content |-> <<"blank">>, functions |-> << >>]
    /\ moduleMetrics \in MetricsWithSuggestions
    /\ overall_score = NotComputed
    /\ quality_level = "none"
    /\ InitNoRecs
    /\ InitNoRollup

NextRecs ==
    \/ SetLlmAssessment
    \/ GenerateModuleRecommendations

SpecRecs == InitRecs /\ [][NextRecs]_vars

(* ------------------------------------------------------------------ *)
(* analyze_quality: the loop over the modules and the rollup            *)
(* ------------------------------------------------------------------ *)
\* an overall_score that is None
NoneScore == <<0, 0>>

\* an assignment that is lost
DictSetLost(d, k, v) == d

\* d[k] = v on a dict
DictSet(d, k, v) == [x \in (DOMAIN d) \cup {k} |-> IF x = k THEN v ELSE d[x]]

\* sorted(s, key=...) as Python sorts: Before(a, b) says that a's key sorts
\* strictly before b's, equal keys keep their order
StableSort(s, Before(_, _)) ==
    LET list == s \o << >>
        \* the place of each element in the result
        place == [i \in DOMAIN list |->
                    Cardinality({ j \in DOMAIN list :
                                    \/ Before(list[j], list[i])
                                    \/ ~Before(list[i], list[j]) /\ j < i }) + 1] \o << >>
    IN  [r \in DOMAIN list |-> list[CHOOSE i \in DOMAIN list : place[i] = r]]

\* [a for a in s if Test(a)]
Filter(s, Test(_)) == SelectSeq(s, Test)

RECURSIVE SumFrac(_)
SumFrac(scores) ==
    IF scores = << >> THEN Zero ELSE FAdd(Head(scores), SumFrac(Tail(scores)))

\* np.mean(scores) of scores that are numbers
Mean(scores) == FDiv(SumFrac(scores), Len(scores))

\* np.median(scores)
Median(scores) ==
    LET sorted == StableSort(scores, LAMBDA a, b : ~FLeq(b, a))
        n == Len(scores)
    IN  IF n % 2 = 1 THEN sorted[(n + 1) \div 2]
        ELSE FDiv(FAdd(sorted[n \div 2], sorted[n \div 2 + 1]), 2)

\* a module of the input as a record: its type, and for a dict its path
\* ("<missing>" when it has no 'path'), its content (None or a text) and the
\* overall score and recommendations its text gets from _analyze_module_quality
Mod(type, path, text, score, recs) ==
    [type |-> type, path |-> path, content |-> text, score |-> score,
     recommendations |-> recs]

\* module.get('path', 'unknown')
ModulePath(m) == IF m.path = "<missing>" THEN "unknown" ELSE m.path

\* _analyze_module_quality raises on the module (its content is None, which
\* the regular expressions of the scorers reject)
ScoringRaises(m) == m.content = "None"

\* the QualityAssessment _analyze_module_quality returns for a module
AnalyzeModuleQuality(m) ==
    [ module_path |-> ModulePath(m),
      overall_score |-> m.score,
      quality_level |-> DetermineQualityLevel(m.score),
      metrics |-> << [key |-> "complexity", score |-> m.score] >>,
      recommendations |-> m.recommendations ]

\* _generate_quality_overview(assessments); quality_std_dev is not modelled
GenerateQualityOverview(list) ==
    LET valid_assessments == Filter(list, LAMBDA a : a.overall_score # NoneScore)
        scores == [i \in DOMAIN valid_assessments |-> valid_assessments[i].overall_score]
        levels == [i \in DOMAIN valid_assessments |-> valid_assessments[i].quality_level]
        Paths(ss) == [i \in DOMAIN ss |-> ss[i].module_path]
    IN  IF list = << >> THEN EmptyDict
        ELSE IF valid_assessments = << >>
        THEN [ average_quality_score |-> Zero, median_quality_score |-> Zero,
               total_modules |-> Len(list), quality_level_distribution |-> EmptyDict,
               top_quality_modules |-> << >>, lowest_quality_modules |-> << >> ]
        ELSE [ average_quality_score |-> Mean(scores),
               median_quality_score |-> Median(scores),
               total_modules |-> Len(list),
               quality_level_distribution |->
                   [level \in Range(levels) |->
                       Cardinality({ i \in DOMAIN levels : levels[i] = level })],
               top_quality_modules |->
                   Paths(Take(StableSort(valid_assessments,
                       LAMBDA a, b : ~FLeq(a.overall_score, b.overall_score)), 5)),
               lowest_quality_modules |->
                   Paths(Take(StableSort(valid_assessments,
                       LAMBDA a, b : ~FLeq(b.overall_score, a.overall_score)), 5)) ]

\* _analyze_quality_distribution(assessments): the average of each metric of
\* the first assessment, and the number of assessments of each level
AnalyzeQualityDistribution(list) ==
    IF list = << >> THEN EmptyDict
    ELSE [ metric_averages |->
               [metric_name \in { list[1].metrics[i].key : i \in DOMAIN list[1].metrics } |->
                   LET having == Filter(list, LAMBDA a :
                                   \E i \in DOMAIN a.metrics : a.metrics[i].key = metric_name)
                   IN  Mean([k \in DOMAIN having |->
                               (CHOOSE m \in Range(having[k].metrics) :
                                   m.key = metric_name).score])],
           quality_ranges |->
               [level \in {"excellent", "good", "fair", "poor", "critical"} |->
                   Cardinality({ i \in DOMAIN list : list[i].quality_level = level })] ]

\* the keys of recommendation_counts, in the order of their insertion
CountedStrings(all_recommendations) ==
    LET list == all_recommendations \o << >>
        \* the places where a string occurs for the first time
        first == { i \in DOMAIN list : \A j \in 1..(i - 1) : list[j] # list[i] }
    IN  [r \in 1..Cardinality(first) |->
            list[CHOOSE i \in first : Cardinality({ j \in first : j <= i }) = r]] \o << >>

\* recommendation_counts.items()
RecommendationCounts(all_recommendations) ==
    LET keys == CountedStrings(all_recommendations)
    IN  [i \in DOMAIN keys |->
            [rec |-> keys[i],
             count |-> Cardinality({ j \in DOMAIN all_recommendations :
                                       all_recommendations[j] = keys[i] })]] \o << >>

\* a test that lets every counted string pass
AffectsAny(count) == count > 0

\* if count > 1
AffectsSeveral(count) == count > 1

\* f"{rec} (affects {count} modules)"
GlobalItem(rec, count) == rec \o <<" (affects ", ToString(count), " modules)">>

\* _generate_global_recommendations(assessments)
GenerateGlobalRecommendations(list) ==
    LET all_recommendations == Flatten([i \in DOMAIN list |-> list[i].recommendations])
        sorted_recs == StableSort(RecommendationCounts(all_recommendations),
                                  LAMBDA a, b : a.count > b.count)
        top == Filter(Take(sorted_recs, 10), LAMBDA x : AffectsSeveral(x.count))
    IN  [i \in DOMAIN top |-> GlobalItem(top[i].rec, top[i].count)]

\* np.mean([a.overall_score for a in assessments]) raises TypeError when a
\* score is None
TrendsRaise(list) == \E i \in DOMAIN list : list[i].overall_score = NoneScore

\* _analyze_quality_trends(assessments), when it returns
AnalyzeQualityTrends(list) ==
    [ total_modules |-> Len(list),
      average_score |->
          IF list # << >> THEN Mean([i \in DOMAIN list |-> list[i].overall_score])
          ELSE Zero ]

NotRollup == << module, moduleMetrics, assessVars, llmVars, parseVars, enhVars >>

AtModule(type) ==
    /\ aqPc = "loop"
    /\ nextModule <= Len(modules)
    /\ modules[nextModule].type = type

\* if isinstance(module, str): ... continue
SkipString ==
    /\ AtModule("str")
    /\ nextModule' = nextModule + 1
    /\ UNCHANGED << modules, assessments, quality_results, aqPc, NotRollup >>

\* else: ... continue (neither a str nor a dict)
SkipOtherType ==
    /\ aqPc = "loop"
    /\ nextModule <= Len(modules)
    /\ modules[nextModule].type \notin {"str", "dict"}
    /\ nextModule' = nextModule + 1
    /\ UNCHANGED << modules, assessments, quality_results, aqPc, NotRollup >>

\* _analyze_module_quality raises; except Exception logs the error
ModuleFails ==
    /\ AtModule("dict")
    /\ ScoringRaises(modules[nextModule])
    /\ nextModule' = nextModule + 1
    /\ UNCHANGED << modules, assessments, quality_results, aqPc, NotRollup >>

\* assessments.append(assessment);
\* quality_results['module_assessments'][module_path] = asdict(assessment)
ModuleAssessed ==
    /\ AtModule("dict")
    /\ ~ScoringRaises(modules[nextModule])
    /\ LET assessment == AnalyzeModuleQuality(modules[nextModule])
       IN  /\ assessments' = Append(assessments, assessment)
           /\ quality_results' =
                 [quality_results EXCEPT !.module_assessments =
                     DictSet(@, ModulePath(modules[nextModule]), assessment)]
    /\ nextModule' = nextModule + 1
    /\ UNCHANGED << modules, aqPc, NotRollup >>

\* quality_results['overview'] = self._generate_quality_overview(assessments)
SetOverview ==
    /\ aqPc = "loop"
    /\ nextModule > Len(modules)
    /\ quality_results' =
          [quality_results EXCEPT !.overview = GenerateQualityOverview(assessments)]
    /\ aqPc' = "distribution"
    /\ UNCHANGED << modules, nextModule, assessments, NotRollup >>

\* quality_results['quality_distribution'] = ...
SetQualityDistribution ==
    /\ aqPc = "distribution"
    /\ quality_results' =
          [quality_results EXCEPT !.quality_distribution =
              AnalyzeQualityDistribution(assessments)]
    /\ aqPc' = "recommendations"
    /\ UNCHANGED << modules, nextModule, assessments, NotRollup >>

\* quality_results['recommendations'] = ...
SetGlobalRecommendations ==
    /\ aqPc = "recommendations"
    /\ quality_results' =
          [quality_results EXCEPT !.recommendations =
              GenerateGlobalRecommendations(assessments)]
    /\ aqPc' = "trends"
    /\ UNCHANGED << modules, nextModule, assessments, NotRollup >>

\* quality_results['trends'] = self._analyze_quality_trends(assessments);
\* an exception of _analyze_quality_trends leaves analyze_quality
SetTrends ==
    /\ aqPc = "trends"
    /\ IF TrendsRaise(assessments)
       THEN /\ aqPc' = "raised"
            /\ UNCHANGED quality_results
       ELSE /\ aqPc' = "metadata"
            /\ quality_results' =
                  [quality_results EXCEPT !.trends = AnalyzeQualityTrends(assessments)]
    /\ UNCHANGED << modules, nextModule, assessments, NotRollup >>

\* quality_results['metadata']['total_modules_analyzed'] = len(assessments);
\* return quality_results
ReturnQualityResults ==
    /\ aqPc = "metadata"
    /\ quality_results' =
          [quality_results EXCEPT !.total_modules_analyzed = Len(assessments)]
    /\ aqPc' = "returned"
    /\ UNCHANGED << modules, nextModule, assessments, NotRollup >>

NextRollup ==
    \/ SetOverview
    \/ SetQualityDistribution
    \/ SetGlobalRecommendations
    \/ SetTrends
    \/ ReturnQualityResults

\* recommendation strings r01 .. r12
RecNames ==
    <<"r01", "r02", "r03", "r04", "r05", "r06", "r07", "r08", "r09", "r10", "r11", "r12">>

Rec(i) == << RecNames[i] >>

Reverse(s) == [i \in DOMAIN s |-> s[Len(s) + 1 - i]] \o << >>

\* recommendation lists of a module: none, two, ten and twelve strings
RecLists ==
    LET twelve == [i \in 1..12 |-> Rec(i)]
    IN  { << >>, << Rec(2), Rec(1) >>, Reverse(twelve), SubSeq(twelve, 3, 12) }

ModulePaths == <<"a.py", "b.py", "c.py", "d.py", "e.py">>

\* a list of assessments, some of them without a score: the assessment at
\* place i has the score and the recommendations a[i]
AssessmentsOf(a) ==
    [i \in DOMAIN a |->
        [ module_path |-> ModulePaths[i],
          overall_score |-> a[i].score,
          quality_level |->
              IF a[i].score = NoneScore THEN "None" ELSE DetermineQualityLevel(a[i].score),
          metrics |->
              IF a[i].score = NoneScore THEN << >>
              ELSE << [key |-> "complexity", score |-> a[i].score] >>,
          recommendations |-> a[i].recs ]]

AssessmentInputs == [score : {NoneScore, Frac(1, 2), Frac(9, 10)}, recs : RecLists]

\* the rollup of analyze_quality on any list of assessments
InitRollup ==
    /\ InitNoClient
    /\ InitNoParse
    /\ InitNoEnh
    /\ module = [content |-> <<"blank">>, functions |-> << >>]
    /\ moduleMetrics = << >>
    /\ overall_score = <<0, 0>>
    /\ quality_level = "none"
    /\ InitNoRecs
    /\ modules = << >>
    /\ nextModule = 1
    /\ \E n \in 0..MaxModules :
          \E a \in [1..n -> AssessmentInputs] : assessments = AssessmentsOf(a)
    /\ quality_results = NewQualityResults
    /\ aqPc = "loop"

SpecRollup == InitRollup /\ [][NextRollup]_vars

\* the modules of an input: bare strings, values that are neither strings
\* nor dicts, dicts whose scoring raises, dicts that are assessed
ModuleInputs ==
    { Mod("str", "a.py", "", Zero, << >>), Mod("NoneType", "", "", Zero, << >>) }
    \cup { Mod("dict", path, "None", Zero, << >>) : path \in {"a.py", "c.py"} }
    \cup { Mod("dict", path, "text", score, recs) :
             path \in {"a.py", "b.py", "<missing>"},
             score \in {Frac(1, 2), Frac(9, 10)},
             recs \in { << Rec(1) >>, << Rec(2), Rec(1) >> } }

InitAnalyze ==
    /\ InitNoClient
    /\ InitNoParse
    /\ InitNoEnh
    /\ module = [content |-> <<"blank">>, functions |-> << >>]
    /\ moduleMetrics = << >>
    /\ overall_score = <<0, 0>>
    /\ quality_level = "none"
    /\ InitNoRecs
    /\ \E n \in 0..MaxModules : modules \in [1..n -> ModuleInputs]
    /\ nextModule = 1
    /\ assessments = << >>
    /\ quality_results = NewQualityResults
    /\ aqPc = "loop"

NextAnalyze ==
    \/ SkipString
    \/ SkipOtherType
    \/ ModuleFails
    \/ ModuleAssessed
    \/ NextRollup

SpecAnalyze == InitAnalyze /\ [][NextAnalyze]_vars

(* ================================================================== *)
(* Claims about the LLM client (_call_openai and its cache)             *)
(* ================================================================== *)
Finished(c) == pc[c] = "idle" /\ result[c].kind # "none"
LookedUp(c) == pc[c] \notin {"get_cached", "read"} /\ (Finished(c) \/ pc[c] # "idle")

C3_CacheExpiry ==
    /\ ~freshDeleted
    /\ \A c \in Clients :
        expiredRead[c] =>
            /\ pc[c] = "attempt" => ~Exists(cache, KeyOf(c))
            /\ Finished(c) =>
                 /\ nExt[c] >= 1
                 /\ result[c].kind = "return" =>
                      /\ result[c].value = content[c]
                      /\ Exists(cache, KeyOf(c))
                      /\ cache[KeyOf(c)].response = content[c]

C3_Witness ==
    /\ expiredRead["c1"]
    /\ Finished("c1")
    /\ nExt["c1"] = 1
    /\ result["c1"] = Returned(content["c1"])
    /\ cache[KeyOf("c1")].response = content["c1"]
    /\ cache[KeyOf("c1")].timestamp > cache_ttl_hours

\* C4: the errors the claim calls transient and permanent
TransientErrors == { <<"Rate", "limit", "exceeded">>, <<"Service", "Unavailable">> }
PermanentErrors == { <<"Invalid", "API", "key">>, <<"limit", "of", "Rate">>,
                     EmptyContentError }

\* C4: a call that ends on a transient error has made exactly max_retries
\* external attempts and raises that last error; a permanent error is
\* never retried: the attempt that raised it is the call's last, no sleep
\* follows it, and it is the error raised (one attempt and no sleep at all
\* when it is the first error).
C4_RetryClassification ==
    \A c \in Clients :
        /\ \A i \in 1..Len(errors[c]) :
             errors[c][i] \in PermanentErrors =>
                 /\ i = Len(errors[c])
                 /\ Finished(c)
                 /\ result[c] = Raised(errors[c][i])
                 /\ nExt[c] = i
                 /\ Len(sleeps[c]) = i - 1
        /\ ( /\ Finished(c)
             /\ errors[c] # << >>
             /\ result[c].kind = "raise"
             /\ errors[c][Len(errors[c])] \in TransientErrors )
           => /\ nExt[c] = max_retries
              /\ result[c] = Raised(errors[c][Len(errors[c])])

C4_Witness ==
    /\ max_retries = 3
    /\ Finished("c1")
    /\ Len(errors["c1"]) = 3
    /\ \A i \in 1..3 : errors["c1"][i] \in TransientErrors
    /\ result["c1"] = Raised(errors["c1"][3])

\* C5: the k-th sleep of a call (k from zero) lasts
\* retry_backoff_seconds * 2^k; every failed attempt but the last is
\* followed by one sleep, and no sleep follows the last attempt, be it a
\* failure or a success.
C5_ExponentialBackoff ==
    \A c \in Clients :
        /\ \A k \in 1..Len(sleeps[c]) :
             sleeps[c][k] = retry_backoff_seconds * Pow2(k - 1)
        /\ pc[c] = "attempt" => Len(sleeps[c]) = nExt[c]
        /\ (pc[c] = "cache_response" \/ (Finished(c) /\ nExt[c] > 0))
             => Len(sleeps[c]) = nExt[c] - 1

C5_Witness ==
    /\ retry_backoff_seconds = 2
    /\ sleeps["c1"] = <<2, 4>>
    /\ Finished("c1")
    /\ nExt["c1"] = 3

(* ================================================================== *)
(* Claims about _parse_json_response                                    *)
(* ================================================================== *)
Parsed == parseOut # NotParsed

\* no recovery strategy yields parseable JSON on the (stripped) text
NoStrategyParses(text) ==
    /\ ~DirectParse(text).ok
    /\ ~FenceParse(text).ok
    /\ ~BraceParse(text).ok
    /\ ~PrefixParse(text).ok
    /\ ~BalancedParse(text).ok

FencedForms(J) ==
    { <<"<fence>", "json", "\n">> \o J \o <<"\n", "<fence>">>,
      <<"<fence>", "\n">> \o J \o <<"\n", "<fence>">>,
      <<"<fence>", "json", "\n">> \o J \o <<"\n", "<fence>", "\n">>,
      <<"<fence>">> \o J \o <<"<fence>">>,
      <<"<fence>", "json">> \o J \o <<"<fence>">> }

\* J after a sentence of prose
ProseForms(J) ==
    { HeresTheJson \o <<" ">> \o J,
      HeresTheJson \o <<"\n">> \o J,
      <<"Response", ":", " ">> \o J }

\* C7: for a JSON object J, _parse_json_response returns J when given the
\* plain text of J, the text of J wrapped in code fences, or the text of J
\* preceded by prose such as "Here's the JSON response:".
C7_JsonRecovery ==
    Parsed =>
        \A J \in JsonObjects :
            parseText \in {J} \cup FencedForms(J) \cup ProseForms(J)
                => ~parseOut.raised /\ parseOut.value = NoSpace(J)

\* an object nested three deep is recovered from behind the prose
C7_Witness ==
    /\ Parsed
    /\ \E J \in JsonObjects :
          /\ Len(NoSpace(J)) >= 8
          /\ parseText \in ProseForms(J)
          /\ parseOut.value = NoSpace(J)

\* the five strategies in the order of the claim, each on its own
StrategiesInOrder(text) ==
    << Try(text),
       Try(Strip(FenceSub(text, 1))),
       BraceParse(text),
       PrefixParse(text),
       BalancedParse(text) >>

\* the first strategy that parses, 6 when none does
FirstParsing(rs) ==
    IF \E i \in 1..Len(rs) : rs[i].ok
    THEN CHOOSE i \in 1..Len(rs) : rs[i].ok /\ \A j \in 1..(i - 1) : ~rs[j].ok
    ELSE 6

\* C8: the strategies are applied in the order direct parse, code-fence
\* stripping, first-"{"-to-last-"}" substring, introductory-phrase remainder,
\* brace-balanced substrings; the value returned is the result of the first
\* of them that parses, and the function returns at that strategy.
C8_StrategyOrder ==
    (Parsed /\ Strip(parseText) # << >>) =>
        LET rs == StrategiesInOrder(Strip(parseText))
            k == FirstParsing(rs)
        IN  /\ parseOut.by = k
            /\ parseOut.value = IF k = 6 THEN EmptyMapping ELSE rs[k].value

\* the brace substring wins although a balanced substring parses to
\* something else
C8_Witness ==
    /\ Parsed
    /\ parseOut.by = 3
    /\ BalancedParse(Strip(parseText)).ok
    /\ BalancedParse(Strip(parseText)).value # parseOut.value

(* ================================================================== *)
(* Claims about enhance_quality_assessment                              *)
(* ================================================================== *)
EnhDone == enhPc = "done"

\* the four required members of an assessment
FourKeys(d) == [k \in RequiredKeys |-> d[k]]

\* the cache directory is as it was when the assessment began
CacheUntouched ==
    \A k \in Keys :
        IF lastOk[k] = NoEntry THEN k \notin DOMAIN cache
        ELSE k \in DOMAIN cache /\ cache[k] = lastOk[k]

\* C9: with the LLM disabled, enhance_quality_assessment returns a mapping
\* with overall_assessment, strengths, weaknesses and improvement_priority
\* that is a function of the supplied metrics alone, without any call of
\* the client, any external request or any read or write of the cache.
C9_DisabledFallback ==
    ~openai_enabled =>
        /\ enhCalled = << >>
        /\ enhSent = << >>
        /\ ncalls = 0
        /\ nExt[Enhancer] = 0
        /\ enhCacheOps = 0
        /\ CacheUntouched
        /\ EnhDone =>
              /\ RequiredKeys \subseteq DOMAIN enhanced
              /\ enhanced = GenerateFallbackAssessment(quality_metrics)

\* the disabled assessment of a module with more than three low metrics,
\* beside a cache directory that holds a stored reply
C9_Witness ==
    /\ ~openai_enabled
    /\ EnhDone
    /\ cache_enabled
    /\ cache # << >>
    /\ Len(LowMetrics(quality_metrics)) > 3
    /\ Len(enhanced.weaknesses) = 3

\* C10 as stated: the consolidated prompt is the only prompt sent to the
\* external service; when the consolidated call raises or its parsed
\* response lacks a required key, the assessment returned is the
\* deterministic fallback and no further prompt is sent.
C10_SinglePromptAsStated ==
    (openai_enabled /\ EnhDone) =>
        /\ \A i \in 1..Len(enhSent) : enhSent[i] = "comprehensive"
        /\ compOutcome \in {"raised", "missing"} =>
              FourKeys(enhanced) = FourKeys(GenerateFallbackAssessment(quality_metrics))

\* the prompts of the individual assessments the inputs call for, in order
ExpectedIndividual ==
    SelectSeq(<<"overall_assessment", "code_review", "pattern_analysis",
                "security_assessment">>,
              LAMBDA p :
                  CASE p = "overall_assessment" -> TRUE
                    [] p = "code_review" -> contentLen > 0 /\ contentLen < 5000
                    [] p = "pattern_analysis" -> contentLen > 0
                    [] OTHER -> contentLen > 0 /\ HasSecurityMetrics(quality_metrics))

\* C10 (amended): the consolidated prompt is given to the client first, and
\* it is the only prompt when its parsed response has the four keys.  When
\* that call raises or a key is missing, the prompts of the individual
\* assessments follow: overall assessment, code review (0 < len(content) <
\* 5000), pattern analysis (content), security (security metrics and
\* content).  Only prompts given to the client reach the external service.
\* In the failure case the four keys returned are those of the reply to the
\* overall-assessment prompt when it has all four, else the deterministic
\* fallback computed from the metric scores.
C10_SinglePromptAmended ==
    (openai_enabled /\ EnhDone) =>
        /\ \A i \in 1..Len(enhSent) :
              \E j \in 1..Len(enhCalled) : enhSent[i] = enhCalled[j]
        /\ compOutcome = "ok" => enhCalled = <<"comprehensive">>
        /\ compOutcome \in {"raised", "missing"} =>
              /\ enhCalled = <<"comprehensive">> \o ExpectedIndividual
              /\ FourKeys(enhanced) =
                     IF overallOutcome = "ok"
                     THEN [ overall_assessment |-> "a", strengths |-> << >>,
                            weaknesses |-> << >>, improvement_priority |-> << >> ]
                     ELSE FourKeys(GenerateFallbackAssessment(quality_metrics))

\* the consolidated reply lacked a key, all four individual prompts went to
\* the service, and the fallback supplied the four keys
C10_Witness ==
    /\ openai_enabled
    /\ EnhDone
    /\ compOutcome = "missing"
    /\ overallOutcome = "raised"
    /\ Len(enhCalled) = 5
    /\ \E i \in 1..Len(enhSent) : enhSent[i] = "security_assessment"
    /\ FourKeys(enhanced) = FourKeys(GenerateFallbackAssessment(quality_metrics))

\* C11: whatever the external service does (a usable reply, a malformed
\* or empty one, a reply without the required keys or that is no mapping,
\* retryable errors until the retries are exhausted, a non-retryable
\* error) and whether the LLM is enabled or not, the value
\* enhance_quality_assessment returns is a mapping that contains
\* overall_assessment, strengths, weaknesses and improvement_priority.
C11_CompleteResult ==
    EnhDone => RequiredKeys \subseteq DOMAIN enhanced

\* the consolidated call ended by an error, the reply to the
\* overall-assessment prompt was an array, and the assessment returned is
\* complete
C11_Witness ==
    /\ openai_enabled
    /\ EnhDone
    /\ compOutcome = "raised"
    /\ overallOutcome = "not_dict"
    /\ "llm_metadata" \in DOMAIN enhanced
    /\ RequiredKeys \subseteq DOMAIN enhanced

(* ================================================================== *)
(* Claims about the scorers of QualityAnalyzer                          *)
(* ================================================================== *)
\* 0.0 <= score <= 1.0
InUnitInterval(score) == FLeq(Zero, score) /\ FLeq(score, One)

\* C1: the score of every one of the seven scorers (complexity,
\* documentation, maintainability, testability, design patterns, code
\* style, security) is at least 0.0 and at most 1.0 for every module,
\* including an empty text and a module with zero functions.
C1_ScoresInUnitInterval ==
    \A i \in 1..Len(moduleMetrics) : InUnitInterval(moduleMetrics[i].score)

(* ================================================================== *)
(* Claims about the overall score and the quality level                 *)
(* ================================================================== *)
\* a common denominator of the scores
RECURSIVE Denominators(_)
Denominators(metrics) ==
    IF metrics = << >> THEN 1
    ELSE LET d == Denominators(Tail(metrics))
         IN  (Head(metrics).score[2] \div Gcd(Head(metrics).score[2], d)) * d

\* the sum of score * weight, as a multiple of 1 / d
RECURSIVE WeightedOver(_, _)
WeightedOver(metrics, d) ==
    IF metrics = << >> THEN 0
    ELSE Head(metrics).score[1] * Head(metrics).weight * (d \div Head(metrics).score[2])
         + WeightedOver(Tail(metrics), d)

AllScores(metrics, score) == \A i \in 1..Len(metrics) : metrics[i].score = score

\* C12: _calculate_overall_score returns sum(score * weight) / sum(weight)
\* over the metrics, and 0.0 for an empty metric set; so with positive
\* weights it is 1.0 when every score is 1.0 and 0.0 when every score is 0.0.
C12_OverallScore ==
    overall_score # NotComputed =>
        LET d == Denominators(moduleMetrics)
            w == Sum([i \in 1..Len(moduleMetrics) |-> moduleMetrics[i].weight])
        IN  /\ moduleMetrics = << >> => overall_score = Zero
            /\ moduleMetrics # << >> =>
                  overall_score = Frac(WeightedOver(moduleMetrics, d), d * w)
            /\ (moduleMetrics # << >> /\ AllScores(moduleMetrics, One)) => overall_score = One
            /\ AllScores(moduleMetrics, Zero) => overall_score = Zero

\* two metrics of different weights and different scores have been combined
C12_Witness ==
    /\ overall_score # NotComputed
    /\ Len(moduleMetrics) = 2
    /\ moduleMetrics[1].weight # moduleMetrics[2].weight
    /\ moduleMetrics[1].score = One
    /\ moduleMetrics[2].score = Frac(40, 100)
    /\ overall_score \notin {One, Frac(40, 100), Frac(70, 100)}

\* score >= n / 10000
AtLeast(score, n) == score[1] * 10000 >= n * score[2]

\* C13: _determine_quality_level gives every score exactly one level, the
\* first of excellent (score >= 0.85), good (>= 0.70), fair (>= 0.55),
\* poor (>= 0.40) whose threshold the score reaches, and critical below
\* 0.40; a score exactly on a threshold gets the level of that threshold.
C13_QualityLevel ==
    quality_level # "none" =>
        /\ quality_level \in {"excellent", "good", "fair", "poor", "critical"}
        /\ quality_level = "excellent" <=> AtLeast(overall_score, 8500)
        /\ quality_level = "good" <=>
               AtLeast(overall_score, 7000) /\ ~AtLeast(overall_score, 8500)
        /\ quality_level = "fair" <=>
               AtLeast(overall_score, 5500) /\ ~AtLeast(overall_score, 7000)
        /\ quality_level = "poor" <=>
               AtLeast(overall_score, 4000) /\ ~AtLeast(overall_score, 5500)
        /\ quality_level = "critical" <=> ~AtLeast(overall_score, 4000)

\* a score of exactly 0.85 has been found excellent
C13_Witness ==
    /\ overall_score = <<17, 20>>
    /\ quality_level = "excellent"

(* ================================================================== *)
(* Claims about the recommendations of a module                         *)
(* ================================================================== *)
\* the suggestions of all metrics of the module
AllSuggestions == UNION { Range(moduleMetrics[i].suggestions) : i \in DOMAIN moduleMetrics }

\* the items for the first two entries of improvement_priority
FirstTwoPriorityItems ==
    { PriorityItem(llm_assessment.improvement_priority[i]) :
        i \in 1..Min(2, Len(llm_assessment.improvement_priority)) }

\* C15: the recommendations of a module hold no string twice, hold every
\* suggestion of every metric of the module and an item "Focus on improving
\* <x> as a priority" for each of the first two entries of improvement_priority
\* (so at most two such items), and nothing else.
C15_ModuleRecommendations ==
    assessPc = "done" =>
        /\ \A i, j \in DOMAIN recommendations :
              i # j => recommendations[i] # recommendations[j]
        /\ AllSuggestions \subseteq Range(recommendations)
        /\ Range(recommendations) = AllSuggestions \cup FirstTwoPriorityItems
        /\ Cardinality(Range(recommendations) \ AllSuggestions) <= 2

\* three metrics, two of which make the same two suggestions: the list holds
\* each suggestion once and items for two of the three priorities only
C15_Witness ==
    /\ assessPc = "done"
    /\ Len(moduleMetrics) = 3
    /\ Len(llm_assessment.improvement_priority) = 3
    /\ Len(CollectRecommendations(moduleMetrics, llm_assessment)) = 6
    /\ Len(recommendations) = 4
    /\ recommendations[1] = PriorityItem("documentation")

(* ================================================================== *)
(* Claims about analyze_quality and its rollup                          *)
(* ================================================================== *)
\* number of assessments whose recommendations contain the string
ModulesWith(rec) ==
    Cardinality({ i \in DOMAIN assessments : rec \in Range(assessments[i].recommendations) })

RecStrings == UNION { Range(assessments[i].recommendations) : i \in DOMAIN assessments }

Recurring == { rec \in RecStrings : ModulesWith(rec) >= 2 }

\* the string is in the global list, with its number of modules
Listed(rec) == GlobalItem(rec, ModulesWith(rec)) \in Range(quality_results.recommendations)

\* quality_results['recommendations'] has been assigned
GlobalRecommendationsSet == aqPc \in {"trends", "metadata", "returned", "raised"}

\* C14: every item of the global recommendations is a string that occurs in
\* the recommendations of at least two modules, followed by
\* "(affects N modules)" with N the number of those modules; the list has at
\* most 10 items, no string twice, in order of non-increasing N; a recurring
\* string is left out only when 10 strings that recur at least as often are
\* listed; a string of one module only is never listed.
C14_GlobalRecommendations ==
    GlobalRecommendationsSet =>
        LET list == quality_results.recommendations
            \* the recommendation string of an item
            RecOf(item) == CHOOSE rec \in Recurring : item = GlobalItem(rec, ModulesWith(rec))
        IN  /\ Len(list) <= 10
            /\ \A i \in DOMAIN list :
                  \E rec \in Recurring : list[i] = GlobalItem(rec, ModulesWith(rec))
            /\ \A i, j \in DOMAIN list : i < j => list[i] # list[j]
            /\ \A i \in 1..(Len(list) - 1) :
                  ModulesWith(RecOf(list[i])) >= ModulesWith(RecOf(list[i + 1]))
            /\ \A rec \in Recurring :
                  ~Listed(rec) =>
                      /\ Len(list) = 10
                      /\ ModulesWith(RecOf(list[10])) >= ModulesWith(rec)
            /\ \A rec \in RecStrings \ Recurring :
                  \A n \in 0..Len(assessments) : GlobalItem(rec, n) \notin Range(list)

\* twelve strings recur, ten of them in three modules: these ten are listed
\* and the two that recur in two modules only are cut
C14_Witness ==
    /\ aqPc = "returned"
    /\ Cardinality(Recurring) = 12
    /\ Len(quality_results.recommendations) = 10
    /\ ~Listed(Rec(1))
    /\ ModulesWith(Rec(1)) = 2
    /\ quality_results.recommendations[1] = GlobalItem(Rec(3), 3)

\* quality_results['overview'] has been assigned
OverviewSet == aqPc \notin {"idle", "loop"}

Assessable(m) == m.type = "dict" /\ ~ScoringRaises(m)

\* the assessments of the input without its failing entries
ExpectedAssessments ==
    LET good == Filter(modules, Assessable)
    IN  [i \in DOMAIN good |-> AnalyzeModuleQuality(good[i])]

\* C17: analyze_quality never raises; when it has returned, the assessments, module_assessments and every part of the rollup
\* are those of the input without its bare strings, its values of other
\* types and the modules whose scoring raised, and total_modules_analyzed is
\* the number of modules assessed.
C17_FailureIsolation ==
    /\ aqPc # "raised"
    /\ aqPc = "returned" =>
          LET expected == ExpectedAssessments
              recorded == quality_results.module_assessments
          IN  /\ assessments = expected
              /\ DOMAIN recorded = { expected[i].module_path : i \in DOMAIN expected }
              /\ \A i \in DOMAIN expected :
                    (\A j \in DOMAIN expected :
                        j > i => expected[j].module_path # expected[i].module_path)
                    => recorded[expected[i].module_path] = expected[i]
              /\ quality_results.total_modules_analyzed = Len(expected)
              /\ quality_results.overview = GenerateQualityOverview(expected)
              /\ quality_results.quality_distribution = AnalyzeQualityDistribution(expected)
              /\ quality_results.recommendations = GenerateGlobalRecommendations(expected)
              /\ quality_results.trends = AnalyzeQualityTrends(expected)

\* a module whose scoring raises, a value that is no module and a module
\* that is assessed: one assessment, recorded under the module's path
C17_Witness ==
    /\ aqPc = "returned"
    /\ Len(modules) = 3
    /\ modules[1].type = "dict" /\ ScoringRaises(modules[1]) /\ modules[1].path = "a.py"
    /\ modules[2].type = "str"
    /\ Assessable(modules[3]) /\ modules[3].path = "b.py"
    /\ quality_results.total_modules_analyzed = 1
    /\ DOMAIN quality_results.module_assessments = {"b.py"}
    /\ quality_results.overview.total_modules = 1

(* ================================================================== *)
(* Claims about the security scorer                                     *)
(* ================================================================== *)
\* clamp(1 - 0.2 * issues + min(0.5, 0.1 * practices), 0, 1)
ClampedSecurityScore(issues, practices) ==
    Clamp(FAdd(FSub(One, Frac(2 * issues, 10)), FMin(Frac(1, 2), Frac(practices, 10))))

\* C19: the score of the security metric is
\* clamp(1 - 0.2 * issues + min(0.5, 0.1 * practices), 0, 1), with issues and
\* practices the numbers of matches of the issue and good-practice patterns
\* in the module's text.
C19_SecurityScore ==
    \A i \in DOMAIN moduleMetrics :
        moduleMetrics[i].key = "security" =>
            moduleMetrics[i].score =
                ClampedSecurityScore(total_issues(module.content),
                                     total_practices(module.content))

(* ================================================================== *)
(* Claims about the writes of the cache                                 *)
(* ================================================================== *)
\* every entry of the cache holds the stripped, non-empty reply of the call
\* that stored it last, the time of that call and its model
EntriesAreReplies ==
    \A k \in DOMAIN cache :
        Loadable(cache[k]) =>
            /\ cache[k].response # << >>
            /\ Strip(cache[k].response) = cache[k].response
            /\ cache[k].timestamp <= now
            /\ \E p \in Prompts : k = GetCacheKey(p, cache[k].model)
            /\ cache[k] = lastOk[k]

\* a step that creates a file or changes its content is a step of
\* _cache_response in a call whose external request returned content; the
\* entry it writes is that content, the time cache_data was built and the
\* client's model, and the call returns
WritesOnlyOnSuccess ==
    \A k \in DOMAIN cache' :
        (k \notin DOMAIN cache \/ cache'[k] # cache[k]) =>
            \E c \in active :
                /\ k = KeyOf(c)
                /\ content[c] # << >>
                /\ pc[c] \in {"cache_response", "dump"}
                /\ pc[c] = "cache_response" => cache'[k] = EmptyFile /\ pc'[c] = "dump"
                /\ pc[c] = "dump" =>
                      /\ result'[c] = Returned(content[c])
                      /\ cache_data[c].timestamp <= now
                      /\ Loadable(cache'[k]) =>
                            cache'[k] = [response |-> content[c],
                                         timestamp |-> cache_data[c].timestamp,
                                         model |-> model[c]]

\* an attempt that raises or returns empty content, and a lookup that hits,
\* leave the cache as it is
FailuresAndHitsWriteNothing ==
    \A c \in active :
        ( \/ pc[c] = "attempt" /\ errors'[c] # errors[c]
          \/ pc[c] = "read" /\ result'[c].kind = "return" )
        => cache' = cache

\* C20: the cache is written only by a call whose external request
\* succeeded: a failed attempt, an empty reply and a cache hit leave every
\* entry unchanged, and every entry holds the non-empty reply of the call
\* that stored it, with its timestamp and model.
C20_WriteOnlyOnSuccess ==
    /\ []EntriesAreReplies
    /\ [][WritesOnlyOnSuccess /\ FailuresAndHitsWriteNothing]_vars

\* a call whose first attempt failed and whose second reply was stored
C20_Witness ==
    /\ cache_enabled
    /\ Finished("c1")
    /\ Len(errors["c1"]) = 1
    /\ nExt["c1"] = 2
    /\ result["c1"] = Returned(content["c1"])
    /\ Exists(cache, KeyOf("c1"))
    /\ cache[KeyOf("c1")] = CacheData(content["c1"], now, model["c1"])

(* ================================================================== *)
(* Claims about clients that share the cache directory                  *)
(* ================================================================== *)
\* the call of c ended by returning the reply of its own external request
ReturnedOwnReply(c) == Finished(c) /\ result[c].kind = "return" /\ nExt[c] >= 1

\* C18: when two clients call _call_openai with the same model and prompt
\* and both miss the cache, neither fails because of the other (a call that
\* raises raises the error of its own last attempt), each returns the reply
\* of its own external request, and once both have returned the cache holds
\* for that key the entry of the client that wrote last.
C18_LastWriterWins ==
    \A c, d \in Clients :
        /\ (Finished(c) /\ result[c].kind = "raise" /\ max_retries > 0)
              => /\ errors[c] # << >>
                 /\ result[c] = Raised(errors[c][Len(errors[c])])
        /\ ReturnedOwnReply(c) => result[c] = Returned(content[c])
        /\ (c # d /\ KeyOf(c) = KeyOf(d) /\ ReturnedOwnReply(c) /\ ReturnedOwnReply(d))
              => /\ Exists(cache, KeyOf(c))
                 /\ cache[KeyOf(c)] = lastOk[KeyOf(c)]

(* ================================================================== *)
(* Claims about the function-length scan of _analyze_maintainability    *)
(* ================================================================== *)
\* the places of the function declaration lines of a text
Declarations(lines) == { i \in DOMAIN lines : lines[i] \in LinesMatching.def_lines }

\* the first line after the declaration at i that no longer belongs to its
\* function: the next declaration or top-level line, or the end of the text
EndOfFunction(lines, i) ==
    LET ends == { j \in (i + 1)..Len(lines) :
                     lines[j] \in LinesMatching.def_lines \cup LinesMatching.top_level }
    IN  IF ends = {} THEN Len(lines) + 1 ELSE CHOOSE j \in ends : \A k \in ends : j <= k

\* the declaration line and the non-blank body lines of the function at i
OwnLength(lines, i) ==
    1 + Cardinality({ j \in (i + 1)..(EndOfFunction(lines, i) - 1) :
                         lines[j] \in LinesMatching.non_blank })

\* one length for every declaration, in the order of the text
OwnLengths(lines) ==
    LET decl == Declarations(lines)
    IN  [r \in 1..Cardinality(decl) |->
            OwnLength(lines, CHOOSE i \in decl : Cardinality({ j \in decl : j <= i }) = r)]

\* C21: for every module text the scan records exactly one length for every
\* function declaration line, the last function of a text that ends inside
\* its body included, and each recorded length counts the declaration line
\* and the non-blank body lines of that function only, not the top-level
\* line that ends it.
C21_FunctionLengths ==
    function_lengths(module.content) \o << >> = OwnLengths(module.content) \o << >>

(* ================================================================== *)
(* Claims about the naming sub-score of _analyze_code_style             *)
(* ================================================================== *)
\* every declared function name is snake_case and every declared class name
\* starts with a capital letter
AllNamesConform(lines) ==
    \A i \in DOMAIN lines :
        /\ lines[i] \in LinesMatching.function_defs
              => lines[i] \in LinesMatching.snake_case_functions
        /\ lines[i] \in LinesMatching.class_defs
              => lines[i] \in LinesMatching.camel_case_classes

\* C22: a module in which every declared function name is snake_case and
\* every declared class name is PascalCase-like has naming score 1.0, also
\* when it declares functions but no classes, or classes but no functions.
C22_NamingScore ==
    AllNamesConform(module.content)
        => /\ FLeq(One, naming_score(module.content))
           /\ FLeq(naming_score(module.content), One)

(* ================================================================== *)
(* Claims about the introductory phrases of _parse_json_response        *)
(* ================================================================== *)
\* the phrase is in the text, in any letter case
HasPhrase(text, prefix) == Contains(Lower(prefix), Lower(text))

\* the remainder of the text after the phrase is parsed, then the substring
\* from its first "{" to its last "}"
RemainderParse(text, prefix) ==
    LET prefix_pos == FindSeq(Lower(prefix), Lower(text))
        after_prefix == Strip(Slice(text, prefix_pos + Len(prefix), Len(text)))
        direct == Try(after_prefix)
    IN  IF Stops(direct) THEN direct ELSE BraceParse(after_prefix)

\* the phrases of the text whose remainder parses
ParsingPhrases(text) ==
    { n \in DOMAIN JsonPrefixes :
         HasPhrase(text, JsonPrefixes[n]) /\ RemainderParse(text, JsonPrefixes[n]).ok }

\* the direct parse, the fence stripping and the brace substring have failed
EarlierStrategiesFail(text) ==
    /\ ~Stops(DirectParse(text))
    /\ ~Stops(FenceParse(text))
    /\ ~Stops(BraceParse(text))

\* C23: when the earlier strategies have failed and the text contains one
\* of the introductory phrases in any letter case, the text after the
\* phrase is parsed, and if that fails the substring from the first "{" to
\* the last "}" of that remainder; the function returns the value of the
\* first phrase for which one of the two parses.
C23_IntroductoryPhrase ==
    LET text == Strip(parseText)
    IN  (Parsed /\ text # << >> /\ EarlierStrategiesFail(text) /\ ParsingPhrases(text) # {})
            => LET n == CHOOSE n \in ParsingPhrases(text) :
                            \A m \in ParsingPhrases(text) : n <= m
               IN  /\ parseOut.by = 4
                   /\ parseOut.value = RemainderParse(text, JsonPrefixes[n]).value

(* ================================================================== *)
(* Claims about caching and the parsing of the replies                  *)
(* ================================================================== *)
\* the reply fails JSON recovery, or is recovered without the required keys
NotUsable(text) ==
    \/ ParseJsonResponse(text).by = 6
    \/ ~HasRequiredKeys(ParseJsonResponse(text).value)

\* C24: _call_openai stores every non-empty reply before its caller parses
\* it, also a reply that fails JSON recovery or lacks the required keys, and
\* every later call with the same model and prompt within the TTL returns
\* the stored text without a new external request.
C24_CacheBeforeParsing ==
    LET c == Enhancer
    IN  /\ (Finished(c) /\ result[c].kind = "return" /\ nExt[c] >= 1)
              => /\ Exists(cache, KeyOf(c))
                 /\ cache[KeyOf(c)] = CacheData(result[c].value, now, model[c])
        /\ ( /\ prior[c] # NoEntry
             /\ LookedUp(c)
             /\ tCheck[c] <= prior[c].timestamp + cache_ttl_hours )
              => /\ Finished(c)
                 /\ result[c] = Returned(prior[c].response)
                 /\ nExt[c] = 0
                 /\ cache[KeyOf(c)] = prior[c]

\* a later assessment gets the prose stored by an earlier one, which fails
\* JSON recovery again, and goes on to a stored reply without the keys
C24_Witness ==
    /\ enhPc = "overall_assessment"
    /\ enhCalled = <<"comprehensive", "overall_assessment">>
    /\ enhSent = << >>
    /\ Finished(Enhancer)
    /\ nExt[Enhancer] = 0
    /\ result[Enhancer] = Returned(<<"{", "part", "}">>)
    /\ NotUsable(result[Enhancer].value)
    /\ Exists(cache, GetCacheKey("comprehensive", model[Enhancer]))
    /\ cache[GetCacheKey("comprehensive", model[Enhancer])].response = <<"the">>
    /\ ParseJsonResponse(<<"the">>).by = 6

(* ================================================================== *)
(* Claims about the number of attempts of _call_openai                  *)
(* ================================================================== *)
\* the call of c missed the cache and ended by raising
RaisedAfterMiss(c) ==
    /\ openai_enabled
    /\ Finished(c)
    /\ result[c].kind = "raise"

\* C25: for every max_retries >= 0, a call of _call_openai that misses the
\* cache makes at least one external attempt before it raises, and raises
\* the error of its last external attempt.
C25_AtLeastOneAttempt ==
    \A c \in Clients :
        RaisedAfterMiss(c) =>
            /\ nExt[c] >= 1
            /\ errors[c] # << >>
            /\ result[c] = Raised(errors[c][Len(errors[c])])

(* ================================================================== *)
(* Claims about lazy expiry in a shared cache directory                 *)
(* ================================================================== *)
\* C26: when a client has read an expired entry and another client stores
\* a fresh entry for the key before the first client's delete runs, the
\* delete does not remove the fresh entry; and a delete of an entry that
\* another client has removed already counts as a miss: the call goes on to
\* its attempts and raises no error but those of its own attempts.
C26_LazyExpirySafe ==
    /\ ~freshDeleted
    /\ \A c \in Clients :
          expiredRead[c] =>
              /\ pc[c] \in {"unlink", "attempt", "cache_response", "dump", "idle"}
              /\ (Finished(c) /\ result[c].kind = "raise")
                    => /\ errors[c] # << >>
                       /\ result[c] = Raised(errors[c][Len(errors[c])])

(* ================================================================== *)
(* Claims about the entries of module_assessments                       *)
(* ================================================================== *)
\* C27: after analyze_quality returns, for any list of modules (modules
\* that share a path or have no path among them) the number of entries of
\* module_assessments is metadata.total_modules_analyzed: every module that
\* was assessed and counted has an entry of its own.
C27_EntryPerModule ==
    aqPc = "returned" =>
        Cardinality(DOMAIN quality_results.module_assessments)
            = quality_results.total_modules_analyzed

\* ---------------------------------------------------------------------------
\* C28: every assessment _analyze_module_quality builds with the default
\* weights has an overall score between 0.0 and 1.0: once the seven scorers
\* have run and _calculate_overall_score has set the score, it is at least 0
\* and at most 1.
C28_OverallInUnitInterval ==
    overall_score # NotComputed =>
        /\ FLeq(Zero, overall_score)
        /\ FLeq(overall_score, One)

(* ================================================================== *)
(* Claims about an empty reply of the external service                  *)
(* ================================================================== *)
\* the step in which the call of c gets a reply whose content is empty after
\* strip(): the attempt is counted and raises the ValueError of line 519
EmptyReplyStep(c) ==
    /\ nExt'[c] = nExt[c] + 1
    /\ errors'[c] = Append(errors[c], EmptyContentError)

\* C29: a reply whose content is empty or whitespace-only is a failure that
\* is not retried: the step that receives it writes nothing to the cache,
\* adds no backoff sleep and ends the call by raising the error, also when
\* attempts remain (attempt < max_retries - 1).
C29_EmptyReplyNotRetried ==
    [][\A c \in Clients :
          EmptyReplyStep(c) =>
              /\ cache' = cache
              /\ lastOk' = lastOk
              /\ sleeps'[c] = sleeps[c]
              /\ attempt'[c] = attempt[c]
              /\ Finished(c)'
              /\ result'[c] = Raised(EmptyContentError)]_vars

\* the first reply of a call with three attempts was empty: one request, no
\* sleep, no entry, and the error raised
C29_Witness ==
    /\ max_retries = 3
    /\ cache_enabled
    /\ Finished("c1")
    /\ errors["c1"] = << EmptyContentError >>
    /\ nExt["c1"] = 1
    /\ sleeps["c1"] = << >>
    /\ ~Exists(cache, KeyOf("c1"))
    /\ result["c1"] = Raised(EmptyContentError)

====
